---- MODULE Spec2Model ----
(***************************************************************************)
(* Resume skill-gap analyzer: the skill normalizer (SkillProcessor), the   *)
(* gap analyzer and the recommendation generator (SkillMatcher), the       *)
(* endpoints of the backend (match_resume, batch_match, upload_resume),    *)
(* the decoding front of ResumeParser, and the TfidfVectorizer the one     *)
(* SkillMatcher of the process shares between calls.                       *)
(*                                                                         *)
(* Strings are TLA+ strings; a character is a string of length 1.  Lists   *)
(* of skills are sequences of strings.  Scores are carried as integers in  *)
(* hundredths (job_fit_score 80.0 is 8000) and the cosine similarity in    *)
(* thousandths (1.0 is 1000).                                              *)
(***************************************************************************)
EXTENDS Integers, Sequences, FiniteSets, TLC

VARIABLES
    skill,              \* normalize_skill: the raw argument
    once,               \* normalize_skill(skill)
    twice,              \* normalize_skill(normalize_skill(skill))
    npc,                \* "raw" | "normalized" | "renormalized"
    raw_skills,         \* normalize_skills: the raw argument
    normalized_skills,  \* normalize_skills(raw_skills)
    lpc,                \* "start" | "done"
    resume_skills,      \* analyze_skill_gap: the three raw arguments
    required_skills,
    preferred_skills,
    analysis,           \* the dictionary analyze_skill_gap returns
    pc,                 \* "start" | "analyzed"
    missing_required,   \* generate_recommendations: the three arguments
    missing_preferred,
    job_fit_score,
    recommendations,    \* the list generate_recommendations returns
    rpc,                \* "start" | "done"
    req_skills,         \* the request: resume_skills.skills
    req_optional,       \* the request: the optional fields of resume_skills
    job_requirements,   \* the request: the job requirements, in input order
    analyzer_calls,     \* the required_skills argument of every analyze_skill_gap call
    response,           \* status code and detail of the HTTP response
    results,            \* batch_match: the "results" list of the response
    match_result,       \* match_resume: the analysis of the response
    matrix,             \* create_skill_matrix: the rows of the returned frame
    apc,                \* "start" | "matched" | "batched" | "matrix"
    filename,           \* upload_resume: file.filename
    file_content,       \* upload_resume: what the uploaded bytes hold
    decoder_calls,      \* the decoders run on the bytes, in call order
    extractor_calls,    \* the extractors run on the decoded text, in call order
    upload_response,    \* status code, detail and text preview of the response
    upc,                \* "start" | "done"
    ptext,              \* parse_resume_full: the decoded text
    parsed,             \* the name, education and work_experience extracted so far
    ppc,                \* "start" | "name" | "education" | "done"
    vectorizer,         \* skill_matcher.vectorizer, shared by every call
    calls,              \* per caller: arguments, position, count matrix, result
    history             \* the arguments of the calls completed one after another

normVars == <<skill, once, twice, npc>>
listVars == <<raw_skills, normalized_skills, lpc>>
gapVars  == <<resume_skills, required_skills, preferred_skills, analysis, pc>>
recVars  == <<missing_required, missing_preferred, job_fit_score, recommendations, rpc>>
apiVars  == <<req_skills, req_optional, job_requirements, analyzer_calls, response, results,
              match_result, matrix, apc>>
upVars   == <<filename, file_content, decoder_calls, extractor_calls,
              upload_response, upc>>
parseVars == <<ptext, parsed, ppc>>
vecVars  == <<vectorizer, calls, history>>
vars     == <<normVars, listVars, gapVars, recVars, apiVars, upVars, parseVars, vecVars>>

(***************************************************************************)
(* Characters                                                              *)
(***************************************************************************)
UpperLetters == "ABCDEFGHIJKLMNOPQRSTUVWXYZ"
LowerLetters == "abcdefghijklmnopqrstuvwxyz"
DigitChars   == "0123456789"

CharAt(s, i) == SubSeq(s, i, i)
CharsOf(s)   == {CharAt(s, i) : i \in 1..Len(s)}

UpperSet == CharsOf(UpperLetters)
LowerSet == CharsOf(LowerLetters)
DigitSet == CharsOf(DigitChars)

\* \w of Python's re on the characters the model uses: letters, digits, "_"
WordChars == UpperSet \cup LowerSet \cup DigitSet \cup {"_"}
\* \s, and the characters str.strip() removes
SpaceChars == {" ", "\t", "\n", "\r"}
\* the characters the class [^\w\s+#/-] keeps besides \w and \s
KeptSpecials == {"+", "#", "/", "-"}
KeptChars == WordChars \cup SpaceChars \cup KeptSpecials

LetterIndex(c, letters) == CHOOSE i \in 1..Len(letters) : CharAt(letters, i) = c
LowerOf == [c \in UpperSet |-> CharAt(LowerLetters, LetterIndex(c, UpperLetters))]
UpperOf == [c \in LowerSet |-> CharAt(UpperLetters, LetterIndex(c, LowerLetters))]
LowerChar(c) == IF c \in UpperSet THEN LowerOf[c] ELSE c
UpperChar(c) == IF c \in LowerSet THEN UpperOf[c] ELSE c

(***************************************************************************)
(* str.lower(), str.strip(), re.sub                                        *)
(***************************************************************************)
RECURSIVE Lower(_)
Lower(s) == IF s = "" THEN "" ELSE LowerChar(Head(s)) \o Lower(Tail(s))

RECURSIVE LStrip(_)
LStrip(s) == IF s # "" /\ Head(s) \in SpaceChars THEN LStrip(Tail(s)) ELSE s

RECURSIVE RStrip(_)
RStrip(s) ==
    IF s # "" /\ CharAt(s, Len(s)) \in SpaceChars
    THEN RStrip(SubSeq(s, 1, Len(s) - 1))
    ELSE s

Strip(s) == RStrip(LStrip(s))

\* re.sub(r'[^\w\s+#/-]', '', s)
RECURSIVE RemoveSpecial(_)
RemoveSpecial(s) ==
    IF s = "" THEN ""
    ELSE IF Head(s) \in KeptChars
         THEN Head(s) \o RemoveSpecial(Tail(s))
         ELSE RemoveSpecial(Tail(s))

\* re.sub(r'\s+', ' ', s): every maximal run of whitespace becomes one space
RECURSIVE CollapseSpaces(_)
CollapseSpaces(s) ==
    IF s = "" THEN ""
    ELSE IF Head(s) \in SpaceChars
         THEN " " \o CollapseSpaces(LStrip(s))
         ELSE Head(s) \o CollapseSpaces(Tail(s))

(***************************************************************************)
(* SkillProcessor                                                          *)
(***************************************************************************)
skill_synonyms ==
    [k \in {"js", "ts", "py", "ml", "ai", "dl", "nlp", "cv", "db", "sql", "nosql",
            "aws", "gcp", "k8s", "ci/cd", "rest", "api"} |->
        CASE k = "js"    -> "javascript"
          [] k = "ts"    -> "typescript"
          [] k = "py"    -> "python"
          [] k = "ml"    -> "machine learning"
          [] k = "ai"    -> "artificial intelligence"
          [] k = "dl"    -> "deep learning"
          [] k = "nlp"   -> "natural language processing"
          [] k = "cv"    -> "computer vision"
          [] k = "db"    -> "database"
          [] k = "sql"   -> "structured query language"
          [] k = "nosql" -> "non-relational database"
          [] k = "aws"   -> "amazon web services"
          [] k = "gcp"   -> "google cloud platform"
          [] k = "k8s"   -> "kubernetes"
          [] k = "ci/cd" -> "continuous integration continuous deployment"
          [] k = "rest"  -> "restful api"
          [] k = "api"   -> "application programming interface"]

\* without skill.lower()
normalize_skill_NoLower(s) ==
    LET lowered   == Strip(s)
        cleaned   == RemoveSpecial(lowered)
        collapsed == CollapseSpaces(cleaned)
    IN  IF collapsed \in DOMAIN skill_synonyms
        THEN skill_synonyms[collapsed]
        ELSE collapsed

normalize_skill(s) ==
    LET lowered   == Strip(Lower(s))
        cleaned   == RemoveSpecial(lowered)
        collapsed == CollapseSpaces(cleaned)
    IN  IF collapsed \in DOMAIN skill_synonyms
        THEN skill_synonyms[collapsed]
        ELSE collapsed

(***************************************************************************)
(* Inputs of the normalizer                                                *)
(***************************************************************************)
MaxRawLen == 4

\* a letter of each case, a blank, a tab and a character the regex removes
RawAlphabet == {"j", "S", " ", "\t", "."}

RECURSIVE StringsOfLen(_)
StringsOfLen(n) ==
    IF n = 0 THEN {""}
    ELSE {c \o s : c \in RawAlphabet, s \in StringsOfLen(n - 1)}

RawStrings == UNION {StringsOfLen(n) : n \in 0..MaxRawLen}

\* k with the characters at the positions in mask upper-cased
RECURSIVE ApplyCase(_, _, _)
ApplyCase(k, mask, i) ==
    IF i > Len(k) THEN ""
    ELSE (IF i \in mask THEN UpperChar(CharAt(k, i)) ELSE CharAt(k, i))
         \o ApplyCase(k, mask, i + 1)

SynonymVariants ==
    UNION {{ApplyCase(k, mask, 1) : mask \in SUBSET (1..Len(k))} : k \in DOMAIN skill_synonyms}

NormInit ==
    /\ skill \in RawStrings \cup SynonymVariants
    /\ once = ""
    /\ twice = ""
    /\ npc = "raw"

NormIdle ==
    /\ skill = ""
    /\ once = ""
    /\ twice = ""
    /\ npc = "idle"

\* once = processor.normalize_skill(skill)
NormalizeSkill ==
    /\ npc = "raw"
    /\ once' = normalize_skill(skill)
    /\ npc' = "normalized"
    /\ UNCHANGED <<skill, twice>>

\* twice = processor.normalize_skill(once)
NormalizeAgain ==
    /\ npc = "normalized"
    /\ twice' = normalize_skill(once)
    /\ npc' = "renormalized"
    /\ UNCHANGED <<skill, once>>

\* without the "not in seen" test
RECURSIVE DedupNonEmpty_KeepDuplicates(_, _)
DedupNonEmpty_KeepDuplicates(normalized, seen) ==
    IF Len(normalized) = 0 THEN <<>>
    ELSE LET s == Head(normalized)
         IN  IF s # ""
             THEN <<s>> \o DedupNonEmpty_KeepDuplicates(Tail(normalized), seen \cup {s})
             ELSE DedupNonEmpty_KeepDuplicates(Tail(normalized), seen)

\* without the "if skill" test
RECURSIVE DedupNonEmpty_KeepEmpty(_, _)
DedupNonEmpty_KeepEmpty(normalized, seen) ==
    IF Len(normalized) = 0 THEN <<>>
    ELSE LET s == Head(normalized)
         IN  IF s \notin seen
             THEN <<s>> \o DedupNonEmpty_KeepEmpty(Tail(normalized), seen \cup {s})
             ELSE DedupNonEmpty_KeepEmpty(Tail(normalized), seen)

\* normalize_skills, lines 72-78: drop empties, keep the first of each duplicate
RECURSIVE DedupNonEmpty(_, _)
DedupNonEmpty(normalized, seen) ==
    IF Len(normalized) = 0 THEN <<>>
    ELSE LET s == Head(normalized)
         IN  IF s # "" /\ s \notin seen
             THEN <<s>> \o DedupNonEmpty(Tail(normalized), seen \cup {s})
             ELSE DedupNonEmpty(Tail(normalized), seen)

normalize_skills(skills) ==
    DedupNonEmpty([i \in 1..Len(skills) |-> normalize_skill(skills[i])], {})

\* sep.join(parts)
RECURSIVE Join(_, _)
Join(parts, sep) ==
    IF Len(parts) = 0 THEN ""
    ELSE IF Len(parts) = 1 THEN parts[1]
    ELSE parts[1] \o sep \o Join(Tail(parts), sep)

skills_to_text(skills) == Join(normalize_skills(skills), " ")

SeqToSet(s) == {s[i] : i \in 1..Len(s)}

(***************************************************************************)
(* TfidfVectorizer(lowercase=True, ngram_range=(1, 2), min_df=1) and       *)
(* cosine_similarity on a corpus of two documents.  The token pattern is   *)
(* the default (?u)\b\w\w+\b: a token is a maximal run of at least two     *)
(* word characters.  max_features=1000 is never reached by the documents   *)
(* of the model.                                                           *)
(***************************************************************************)
EmitToken(cur) == IF Len(cur) >= 2 THEN <<cur>> ELSE <<>>

RECURSIVE ScanTokens(_, _)
ScanTokens(s, cur) ==
    IF s = "" THEN EmitToken(cur)
    ELSE IF Head(s) \in WordChars
         THEN ScanTokens(Tail(s), cur \o Head(s))
         ELSE EmitToken(cur) \o ScanTokens(Tail(s), "")

Tokenize(text) == ScanTokens(Lower(text), "")

\* unigrams followed by the bigrams of neighbouring tokens
Terms(text) ==
    LET tokens == Tokenize(text)
    IN  tokens \o [i \in 1..(IF Len(tokens) = 0 THEN 0 ELSE Len(tokens) - 1) |->
                      tokens[i] \o " " \o tokens[i + 1]]

TermCount(terms, t) == Cardinality({i \in 1..Len(terms) : terms[i] = t})

RECURSIVE SumOver(_, _)
SumOver(S, f) ==
    IF S = {} THEN 0
    ELSE LET x == CHOOSE y \in S : TRUE
         IN  f[x] + SumOver(S \ {x}, f)

\* floor of the square root
RECURSIVE IsqrtIn(_, _, _)
IsqrtIn(n, lo, hi) ==
    IF lo >= hi THEN lo
    ELSE LET mid == (lo + hi + 1) \div 2
         IN  IF mid * mid <= n THEN IsqrtIn(n, mid, hi) ELSE IsqrtIn(n, lo, mid - 1)

Isqrt(n) == IsqrtIn(n, 0, 1000)

\* The cosine of the two tf-idf rows, in thousandths (floor).  With two
\* documents and smooth idf, a term of both documents has idf ln(3/3)+1 = 1
\* and a term of one document has idf ln(3/2)+1, whose square 1.9753 is
\* carried as 79/40.  raised is the ValueError fit_transform raises on an
\* empty vocabulary.
TfidfCosine(text1, text2) ==
    LET terms1 == Terms(text1)
        terms2 == Terms(text2)
        vocab  == SeqToSet(terms1) \cup SeqToSet(terms2)
        tf1    == [t \in vocab |-> TermCount(terms1, t)]
        tf2    == [t \in vocab |-> TermCount(terms2, t)]
        idf2   == [t \in vocab |-> IF tf1[t] > 0 /\ tf2[t] > 0 THEN 40 ELSE 79]
        dot    == SumOver(vocab, [t \in vocab |-> tf1[t] * tf2[t]])
        norm1  == SumOver(vocab, [t \in vocab |-> tf1[t] * tf1[t] * idf2[t]])
        norm2  == SumOver(vocab, [t \in vocab |-> tf2[t] * tf2[t] * idf2[t]])
        num    == (40 * dot) * (40 * dot)
        den    == norm1 * norm2
        high   == (num * 1000) \div den
        low    == (((num * 1000) % den) * 1000) \div den
    IN  IF vocab = {} THEN [raised |-> TRUE, value |-> 0]
        ELSE IF den = 0 THEN [raised |-> FALSE, value |-> 0]
        ELSE [raised |-> FALSE, value |-> Isqrt(high * 1000 + low)]

(***************************************************************************)
(* SkillMatcher                                                            *)
(***************************************************************************)
\* a failed vectorization taken as a full similarity
calculate_similarity_ErrorAsFull(resume, job) ==
    LET resume_text == skills_to_text(resume)
        job_text    == skills_to_text(job)
    IN  IF resume_text = "" \/ job_text = "" THEN 0
        ELSE LET similarity == TfidfCosine(resume_text, job_text)
             IN  IF similarity.raised THEN 1000 ELSE similarity.value

calculate_similarity(resume, job) ==
    LET resume_text == skills_to_text(resume)
        job_text    == skills_to_text(job)
    IN  IF resume_text = "" \/ job_text = "" THEN 0
        ELSE LET similarity == TfidfCosine(resume_text, job_text)
             IN  IF similarity.raised THEN 0 ELSE similarity.value

RequiredWeight   == 60
PreferredWeight  == 20
SimilarityWeight == 20

\* x / d rounded to the nearest integer
RoundDiv(x, d) == (2 * x + d) \div (2 * d)

\* the similarity taken as a percentage instead of a 20-point component
calculate_job_fit_score_SimPercent(matching_req, required, matching_pref, preferred, similarity) ==
    LET reqNum  == IF Len(required) > 0 THEN Len(matching_req) * RequiredWeight ELSE 0
        reqDen  == IF Len(required) > 0 THEN Len(required) ELSE 1
        prefNum == IF Len(preferred) > 0 THEN Len(matching_pref) * PreferredWeight ELSE 0
        prefDen == IF Len(preferred) > 0 THEN Len(preferred) ELSE 1
        simNum  == similarity * 100
    IN  RoundDiv(100 * (reqNum * prefDen * 1000 + prefNum * reqDen * 1000 + simNum * reqDen * prefDen),
                 reqDen * prefDen * 1000)

\* an empty preferred list counted as fully matched
calculate_job_fit_score_EmptyPreferredFull(matching_req, required, matching_pref, preferred, similarity) ==
    LET reqNum  == IF Len(required) > 0 THEN Len(matching_req) * RequiredWeight ELSE 0
        reqDen  == IF Len(required) > 0 THEN Len(required) ELSE 1
        prefNum == IF Len(preferred) > 0 THEN Len(matching_pref) * PreferredWeight ELSE PreferredWeight
        prefDen == IF Len(preferred) > 0 THEN Len(preferred) ELSE 1
        simNum  == similarity * SimilarityWeight
    IN  RoundDiv(100 * (reqNum * prefDen * 1000 + prefNum * reqDen * 1000 + simNum * reqDen * prefDen),
                 reqDen * prefDen * 1000)

calculate_job_fit_score_EmptyRequiredFull(matching_req, required, matching_pref, preferred, similarity) ==
    LET reqNum  == IF Len(required) > 0 THEN Len(matching_req) * RequiredWeight ELSE RequiredWeight
        reqDen  == IF Len(required) > 0 THEN Len(required) ELSE 1
        prefNum == IF Len(preferred) > 0 THEN Len(matching_pref) * PreferredWeight ELSE 0
        prefDen == IF Len(preferred) > 0 THEN Len(preferred) ELSE 1
        simNum  == similarity * SimilarityWeight
    IN  RoundDiv(100 * (reqNum * prefDen * 1000 + prefNum * reqDen * 1000 + simNum * reqDen * prefDen),
                 reqDen * prefDen * 1000)

\* round(total_score, 2), in hundredths; similarity is in thousandths
calculate_job_fit_score(matching_req, required, matching_pref, preferred, similarity) ==
    LET reqNum  == IF Len(required) > 0 THEN Len(matching_req) * RequiredWeight ELSE 0
        reqDen  == IF Len(required) > 0 THEN Len(required) ELSE 1
        prefNum == IF Len(preferred) > 0 THEN Len(matching_pref) * PreferredWeight ELSE 0
        prefDen == IF Len(preferred) > 0 THEN Len(preferred) ELSE 1
        simNum  == similarity * SimilarityWeight
    IN  RoundDiv(100 * (reqNum * prefDen * 1000 + prefNum * reqDen * 1000 + simNum * reqDen * prefDen),
                 reqDen * prefDen * 1000)

ExcellentMin   == 80
GoodMin        == 60
ModerateMin    == 40
BonusBelow     == 90
AdviceLowBelow == 50
AdviceMidBelow == 70
TopRequired    == 5
TopPreferred   == 3

\* lst[:n]
Take(lst, n) == SubSeq(lst, 1, IF Len(lst) < n THEN Len(lst) ELSE n)

\* lines 179-186; job_fit_score is in hundredths
Headline_StrictBands(score) ==
    IF score > ExcellentMin * 100
    THEN <<"[EXCELLENT] You meet most requirements.">>
    ELSE IF score > GoodMin * 100
    THEN <<"[GOOD] Consider strengthening a few areas.">>
    ELSE IF score > ModerateMin * 100
    THEN <<"[MODERATE] Significant skill gaps to address.">>
    ELSE <<"[LOW] Major skill development needed.">>

Headline(score) ==
    IF score >= ExcellentMin * 100
    THEN <<"[EXCELLENT] You meet most requirements.">>
    ELSE IF score >= GoodMin * 100
    THEN <<"[GOOD] Consider strengthening a few areas.">>
    ELSE IF score >= ModerateMin * 100
    THEN <<"[MODERATE] Significant skill gaps to address.">>
    ELSE <<"[LOW] Major skill development needed.">>

PriorityLine_TakeAll(missing_req) ==
    IF Len(missing_req) > 0
    THEN <<"[PRIORITY] Learn these required skills - " \o Join(missing_req, ", ")>>
    ELSE <<>>

\* lines 189-193
PriorityLine(missing_req) ==
    IF Len(missing_req) > 0
    THEN <<"[PRIORITY] Learn these required skills - "
           \o Join(Take(missing_req, TopRequired), ", ")>>
    ELSE <<>>

\* lines 196-200
BonusLine(missing_pref, score) ==
    IF Len(missing_pref) > 0 /\ score < BonusBelow * 100
    THEN <<"[BONUS] Consider learning - "
           \o Join(Take(missing_pref, TopPreferred), ", ")>>
    ELSE <<>>

AdviceLines_InclusiveBands(score) ==
    IF score <= AdviceLowBelow * 100
    THEN <<"[ADVICE] Take online courses or certifications in missing skills",
           "[ADVICE] Consider entry-level or junior positions to build experience">>
    ELSE IF score <= AdviceMidBelow * 100
    THEN <<"[ADVICE] Build projects showcasing the missing skills",
           "[ADVICE] Network with professionals in this field">>
    ELSE <<"[ADVICE] Highlight your matching skills prominently in your resume",
           "[ADVICE] Prepare to discuss your relevant experience in interviews">>

\* lines 203-223
AdviceLines(score) ==
    IF score < AdviceLowBelow * 100
    THEN <<"[ADVICE] Take online courses or certifications in missing skills",
           "[ADVICE] Consider entry-level or junior positions to build experience">>
    ELSE IF score < AdviceMidBelow * 100
    THEN <<"[ADVICE] Build projects showcasing the missing skills",
           "[ADVICE] Network with professionals in this field">>
    ELSE <<"[ADVICE] Highlight your matching skills prominently in your resume",
           "[ADVICE] Prepare to discuss your relevant experience in interviews">>

generate_recommendations(missing_req, missing_pref, score) ==
    Headline(score) \o PriorityLine(missing_req) \o BonusLine(missing_pref, score)
        \o AdviceLines(score)

\* list(a_set): the iteration order of a set of strings is not fixed
Orderings(S) ==
    {f \in [1..Cardinality(S) -> S] : \A i, j \in 1..Cardinality(S) : f[i] = f[j] => i = j}

Matching_Union(resume_set, wanted_set) == resume_set \cup wanted_set

\* resume_set.intersection(wanted_set)
Matching(resume_set, wanted_set) == resume_set \cap wanted_set

Missing_NoSubtract(wanted_set, resume_set) == wanted_set

\* the difference taken the other way round
Missing_Reversed(wanted_set, resume_set) == resume_set \ wanted_set

\* wanted_set - resume_set
Missing(wanted_set, resume_set) == wanted_set \ resume_set

\* the resume skills that are not required, preferred ones included
Additional_NotRequired(resume_set, required_set, preferred_set) ==
    resume_set \ required_set

\* resume_set - required_set - preferred_set
Additional(resume_set, required_set, preferred_set) ==
    (resume_set \ required_set) \ preferred_set

\* the results analyze_skill_gap can return once calculate_similarity has
\* returned similarity_score
GapAnalysis(resume, required, preferred, similarity_score) ==
    LET resume_skills_norm    == normalize_skills(resume)
        required_skills_norm  == normalize_skills(required)
        preferred_skills_norm == normalize_skills(preferred)
        resume_set    == SeqToSet(resume_skills_norm)
        required_set  == SeqToSet(required_skills_norm)
        preferred_set == SeqToSet(preferred_skills_norm)
    IN  {[matching_required  |-> mr,
          matching_preferred |-> mp,
          missing_required   |-> xr,
          missing_preferred  |-> xp,
          additional_skills  |-> ad,
          similarity_score   |-> similarity_score,
          job_fit_score      |->
              calculate_job_fit_score(mr, required_skills_norm, mp,
                                      preferred_skills_norm, similarity_score),
          required_match_percentage |->
              IF Len(required_skills_norm) > 0
              THEN RoundDiv(Len(mr) * 100 * 100, Len(required_skills_norm))
              ELSE 0,
          total_skills_matched |-> Len(mr) + Len(mp)] :
            mr \in Orderings(Matching(resume_set, required_set)),
            mp \in Orderings(Matching(resume_set, preferred_set)),
            xr \in Orderings(Missing(required_set, resume_set)),
            xp \in Orderings(Missing(preferred_set, resume_set)),
            ad \in Orderings(Additional(resume_set, required_set, preferred_set))}

\* the results analyze_skill_gap can return
analyze_skill_gap(resume, required, preferred) ==
    GapAnalysis(resume, required, preferred, calculate_similarity(resume, required))

(***************************************************************************)
(* The TfidfVectorizer a SkillMatcher keeps in self.vectorizer, step by    *)
(* step: fit_transform counts the terms of the two documents into a matrix *)
(* X of its own and stores the vocabulary, fits the idf of the             *)
(* vectorizer's TfidfTransformer on X, and transforms X with the idf of    *)
(* the transformer the vectorizer holds at that moment.  Releases of the   *)
(* library differ in one point: some give the vectorizer a new transformer *)
(* at the start of every fit_transform (replaces is TRUE), the others      *)
(* create it once with the vectorizer (replaces is FALSE).                 *)
(***************************************************************************)
\* the characters of a term in code-point order
CharOrder == " 0123456789_abcdefghijklmnopqrstuvwxyz"

CharRank == [c \in CharsOf(CharOrder) |-> LetterIndex(c, CharOrder)]

RECURSIVE StrLess(_, _)
StrLess(a, b) ==
    IF b = "" THEN FALSE
    ELSE IF a = "" THEN TRUE
    ELSE IF Head(a) = Head(b) THEN StrLess(Tail(a), Tail(b))
    ELSE CharRank[Head(a)] < CharRank[Head(b)]

\* the feature names in sorted order: feature j is column j of the matrix
RECURSIVE SortedFeatures(_)
SortedFeatures(S) ==
    IF S = {} THEN <<>>
    ELSE LET m == CHOOSE x \in S : \A y \in S \ {x} : StrLess(x, y)
         IN  <<m>> \o SortedFeatures(S \ {m})

\* a TfidfTransformer that has not been fitted
NewTfidf == [fitted |-> FALSE, idf_ |-> <<>>]

\* the vectorizer of a new SkillMatcher
FreshVectorizer(replaces) ==
    [vocabulary_ |-> <<>>, tfidf |-> NewTfidf, replaces |-> replaces]

\* the transformer the vectorizer holds once fit_transform has started
StartTfidf(vectorizer_) ==
    IF vectorizer_.replaces THEN NewTfidf ELSE vectorizer_.tfidf

\* CountVectorizer.fit_transform: the vocabulary of the documents and their
\* term counts; raised is the ValueError for an empty vocabulary
count_vocab(docs) ==
    LET terms    == [d \in 1..Len(docs) |-> Terms(docs[d])]
        vocab    == UNION {SeqToSet(terms[d]) : d \in 1..Len(docs)}
        features == SortedFeatures(vocab)
    IN  [raised      |-> vocab = {},
         vocabulary_ |-> features,
         X           |-> [d \in 1..Len(docs) |->
                            [j \in 1..Len(features) |-> TermCount(terms[d], features[j])]]]

\* TfidfTransformer.fit: the squared smooth idf of every column, in fortieths
\* (1 for a term of both documents, 79/40 for a term of one)
tfidf_fit(X) ==
    [fitted |-> TRUE,
     idf_   |-> [j \in 1..Len(X[1]) |->
                   IF \A d \in 1..Len(X) : X[d][j] > 0 THEN 40 ELSE 79]]

SumTo(n, f) == SumOver(1..n, f)

\* cosine_similarity of the two rows of X weighted by idf, in thousandths
RowsCosine(X, idf) ==
    LET n     == Len(X[1])
        dot   == SumTo(n, [j \in 1..n |-> X[1][j] * X[2][j] * idf[j]])
        norm1 == SumTo(n, [j \in 1..n |-> X[1][j] * X[1][j] * idf[j]])
        norm2 == SumTo(n, [j \in 1..n |-> X[2][j] * X[2][j] * idf[j]])
        num   == dot * dot
        den   == norm1 * norm2
        high  == (num * 1000) \div den
        low   == (((num * 1000) % den) * 1000) \div den
    IN  IF den = 0 THEN 0 ELSE Isqrt(high * 1000 + low)

\* TfidfTransformer.transform followed by cosine_similarity: raised is the
\* NotFittedError of a transformer that was not fitted, or the ValueError
\* for a matrix whose number of columns is not the one the idf was fitted on
tfidf_transform(tfidf, X) ==
    IF ~tfidf.fitted \/ Len(tfidf.idf_) # Len(X[1])
    THEN [raised |-> TRUE, value |-> 0]
    ELSE [raised |-> FALSE, value |-> RowsCosine(X, tfidf.idf_)]

fit_transform_KeepFitted(vectorizer_, docs) ==
    LET counted == count_vocab(docs)
        kept    == IF vectorizer_.tfidf.fitted THEN vectorizer_.tfidf
                   ELSE tfidf_fit(counted.X)
    IN  IF counted.raised
        THEN [vectorizer_ |-> vectorizer_, raised |-> TRUE, value |-> 0]
        ELSE [vectorizer_ |-> [vectorizer_ EXCEPT !.vocabulary_ = counted.vocabulary_,
                                                  !.tfidf = kept],
              raised      |-> tfidf_transform(kept, counted.X).raised,
              value       |-> tfidf_transform(kept, counted.X).value]

\* self.vectorizer.fit_transform(docs) run without interruption: the state
\* it leaves in the vectorizer, and the cosine of the two rows or raised
fit_transform(vectorizer_, docs) ==
    LET counted == count_vocab(docs)
        fitted  == tfidf_fit(counted.X)
    IN  IF counted.raised
        THEN [vectorizer_ |-> [vectorizer_ EXCEPT !.tfidf = StartTfidf(vectorizer_)],
              raised      |-> TRUE,
              value       |-> 0]
        ELSE [vectorizer_ |-> [vectorizer_ EXCEPT !.vocabulary_ = counted.vocabulary_,
                                                  !.tfidf = fitted],
              raised      |-> tfidf_transform(fitted, counted.X).raised,
              value       |-> tfidf_transform(fitted, counted.X).value]

\* the two documents calculate_similarity hands to the vectorizer
Documents(resume, job) == <<skills_to_text(resume), skills_to_text(job)>>

EmptyText(docs) == docs[1] = "" \/ docs[2] = ""

\* matcher.analyze_skill_gap(resume, required, preferred) on a matcher whose
\* vectorizer is in state vectorizer_: the state it leaves and the results
\* it can return
AnalyzeOn(vectorizer_, resume, required, preferred) ==
    LET docs == Documents(resume, required)
        ft   == fit_transform(vectorizer_, docs)
    IN  IF EmptyText(docs)
        THEN [vectorizer_ |-> vectorizer_,
              results     |-> GapAnalysis(resume, required, preferred, 0)]
        ELSE [vectorizer_ |-> ft.vectorizer_,
              results     |-> GapAnalysis(resume, required, preferred,
                                          IF ft.raised THEN 0 ELSE ft.value)]

(***************************************************************************)
(* Inputs of the gap analyzer                                              *)
(***************************************************************************)
MaxResume    == 2
MaxRequired  == 2
MaxPreferred == 2

\* an abbreviation and its long form, a skill that shares a word with them,
\* a one-letter skill, and a string that normalizes to the empty string
SkillPool == {"ML", "Machine Learning", "deep learning", "C", " ."}

PreferredPool == {"ML", "C"}

RECURSIVE ListsOfLen(_, _)
ListsOfLen(S, n) ==
    IF n = 0 THEN {<<>>}
    ELSE {<<x>> \o l : x \in S, l \in ListsOfLen(S, n - 1)}

ListsUpTo(S, n) == UNION {ListsOfLen(S, k) : k \in 0..n}

\* the lists that name no raw skill twice
DistinctListsUpTo(S, n) ==
    {l \in ListsUpTo(S, n) : \A i, j \in 1..Len(l) : l[i] = l[j] => i = j}

NoAnalysis == [matching_required |-> <<>>, matching_preferred |-> <<>>,
               missing_required |-> <<>>, missing_preferred |-> <<>>,
               additional_skills |-> <<>>, similarity_score |-> 0,
               job_fit_score |-> 0, required_match_percentage |-> 0,
               total_skills_matched |-> 0]

MaxSkills == 3

ListInit ==
    /\ raw_skills \in ListsUpTo(SkillPool, MaxSkills)
    /\ normalized_skills = <<>>
    /\ lpc = "start"

ListIdle ==
    /\ raw_skills = <<>>
    /\ normalized_skills = <<>>
    /\ lpc = "idle"

\* normalized_skills = processor.normalize_skills(raw_skills)
NormalizeSkills ==
    /\ lpc = "start"
    /\ normalized_skills' = normalize_skills(raw_skills)
    /\ lpc' = "done"
    /\ UNCHANGED raw_skills

GapInit ==
    /\ resume_skills \in DistinctListsUpTo(SkillPool, MaxResume)
    /\ required_skills \in DistinctListsUpTo(SkillPool, MaxRequired)
    /\ preferred_skills \in DistinctListsUpTo(PreferredPool, MaxPreferred)
    /\ analysis = NoAnalysis
    /\ pc = "start"

GapIdle ==
    /\ resume_skills = <<>>
    /\ required_skills = <<>>
    /\ preferred_skills = <<>>
    /\ analysis = NoAnalysis
    /\ pc = "idle"

\* analysis = matcher.analyze_skill_gap(resume_skills, required_skills, preferred_skills)
AnalyzeSkillGap ==
    /\ pc = "start"
    /\ analysis' \in analyze_skill_gap(resume_skills, required_skills, preferred_skills)
    /\ pc' = "analyzed"
    /\ UNCHANGED <<resume_skills, required_skills, preferred_skills>>

(***************************************************************************)
(* Inputs of the recommendation generator                                  *)
(***************************************************************************)
MaxMissing == 6

MissingNames == <<"python", "statistics", "tensorflow", "pytorch", "docker",
                  "kubernetes", "git", "linux", "spark">>

MissingLists == {Take(MissingNames, n) : n \in 0..MaxMissing}

\* the scores around every multiple of 5, in hundredths
RecScores == {s \in 0..(100 * 100) : s % 500 \in {0, 1, 499}}

RecInit ==
    /\ missing_required \in MissingLists
    /\ missing_preferred \in MissingLists
    /\ job_fit_score \in RecScores
    /\ recommendations = <<>>
    /\ rpc = "start"

\* recommendations = matcher.generate_recommendations(missing_required,
\*                       missing_preferred, job_fit_score)
GenerateRecommendations ==
    /\ rpc = "start"
    /\ recommendations' =
           generate_recommendations(missing_required, missing_preferred, job_fit_score)
    /\ rpc' = "done"
    /\ UNCHANGED <<missing_required, missing_preferred, job_fit_score>>

RecIdle ==
    /\ missing_required = <<>>
    /\ missing_preferred = <<>>
    /\ job_fit_score = 0
    /\ recommendations = <<>>
    /\ rpc = "idle"


(***************************************************************************)
(* The endpoints that call the analyzer (backend/main.py) and the skill    *)
(* matrix (SkillMatcher.create_skill_matrix)                               *)
(***************************************************************************)
MaxJobs == 3

\* the resume skill lists of a request
ApiResumes == {<<>>, <<"ML">>, <<"C", "deep learning">>}

\* required and preferred skills of a job: two jobs that differ and score
\* alike, jobs that score differently, a job with no required skill, and a
\* job that names one skill as required and as preferred
JobSkills ==
    {[required_skills |-> <<"ML">>,                  preferred_skills |-> <<>>],
     [required_skills |-> <<"Machine Learning">>,    preferred_skills |-> <<>>],
     [required_skills |-> <<"C">>,                   preferred_skills |-> <<"ML">>],
     [required_skills |-> <<"ML", "deep learning">>, preferred_skills |-> <<>>],
     [required_skills |-> <<>>,                      preferred_skills |-> <<"C">>],
     [required_skills |-> <<"ML">>,                  preferred_skills |-> <<"Machine Learning">>]}

\* the job at input position i is titled "job<i>"
TitleOf(i) == "job" \o CharAt(DigitChars, i + 1)

PositionOf(title) == CHOOSE i \in 1..9 : TitleOf(i) = title

\* An Optional field is a list that is empty for None and holds the value
\* otherwise.  The optional fields of a resume: experience_years, education
\* and job_titles.
ResumeOptions ==
    {[experience_years |-> <<>>, education |-> <<>>, job_titles |-> <<>>],
     [experience_years |-> <<2>>, education |-> <<"B.Tech">>,
      job_titles |-> <<<<"Data Analyst">>>>]}

\* the optional fields of a job: min_experience and education_required
JobOptions ==
    {[min_experience |-> <<>>, education_required |-> <<>>],
     [min_experience |-> <<5>>, education_required |-> <<"M.Tech">>]}

\* the jobs at odd positions of a request give their optional fields
OptionsAt(i) ==
    IF i % 2 = 1
    THEN [min_experience |-> <<5>>, education_required |-> <<"M.Tech">>]
    ELSE [min_experience |-> <<>>, education_required |-> <<>>]

JobLists ==
    {[i \in 1..Len(l) |-> [job_title          |-> TitleOf(i),
                           required_skills    |-> l[i].required_skills,
                           preferred_skills   |-> l[i].preferred_skills,
                           min_experience     |-> OptionsAt(i).min_experience,
                           education_required |-> OptionsAt(i).education_required]] :
        l \in ListsUpTo(JobSkills, MaxJobs)}

NoResponse == [status_code |-> 0, detail |-> ""]

NoMatch == [job_fit_score |-> 0, matching_skills |-> <<>>, missing_skills |-> <<>>,
            additional_skills |-> <<>>, similarity_score |-> 0,
            recommendations |-> <<>>, job_title |-> ""]

NoMatrix == [raised |-> FALSE, rows |-> <<>>]

ApiInit ==
    /\ req_skills \in ApiResumes
    /\ req_optional \in ResumeOptions
    /\ job_requirements \in JobLists
    /\ analyzer_calls = <<>>
    /\ response = NoResponse
    /\ results = <<>>
    /\ match_result = NoMatch
    /\ matrix = NoMatrix
    /\ apc = "start"

ApiIdle ==
    /\ req_skills = <<>>
    /\ req_optional = [experience_years |-> <<>>, education |-> <<>>, job_titles |-> <<>>]
    /\ job_requirements = <<>>
    /\ analyzer_calls = <<>>
    /\ response = NoResponse
    /\ results = <<>>
    /\ match_result = NoMatch
    /\ matrix = NoMatrix
    /\ apc = "idle"

\* the entry batch_match appends to results for one job
BatchRow(job_req, analysis_result) ==
    [job_title                 |-> job_req.job_title,
     fit_score                 |-> analysis_result.job_fit_score,
     similarity_score          |-> analysis_result.similarity_score,
     required_match_percentage |-> analysis_result.required_match_percentage,
     skills_matched            |-> analysis_result.total_skills_matched,
     missing_required_count    |-> Len(analysis_result.missing_required)]

\* the row create_skill_matrix appends for one job; Similarity is a
\* percentage in hundredths
MatrixRow(job, analysis_result) ==
    [Job_Title        |-> job.job_title,
     Fit_Score        |-> analysis_result.job_fit_score,
     Similarity       |-> analysis_result.similarity_score * 10,
     Required_Match   |-> analysis_result.required_match_percentage,
     Skills_Matched   |-> analysis_result.total_skills_matched,
     Missing_Required |-> Len(analysis_result.missing_required)]

\* the loop over the jobs: the lists of analysis results it can produce
RECURSIVE AnalyzeJobs(_, _)
AnalyzeJobs(resume, jobs) ==
    IF jobs = <<>> THEN {<<>>}
    ELSE {<<a>> \o rest :
            a \in analyze_skill_gap(resume, Head(jobs).required_skills,
                                    Head(jobs).preferred_skills),
            rest \in AnalyzeJobs(resume, Tail(jobs))}

RECURSIVE InsertByFitScore_Ascending(_, _)
InsertByFitScore_Ascending(sorted, row) ==
    IF sorted = <<>> THEN <<row>>
    ELSE IF Head(sorted).fit_score <= row.fit_score
         THEN <<Head(sorted)>> \o InsertByFitScore_Ascending(Tail(sorted), row)
         ELSE <<row>> \o sorted

RECURSIVE InsertByFitScore_TiesFirst(_, _)
InsertByFitScore_TiesFirst(sorted, row) ==
    IF sorted = <<>> THEN <<row>>
    ELSE IF Head(sorted).fit_score > row.fit_score
         THEN <<Head(sorted)>> \o InsertByFitScore_TiesFirst(Tail(sorted), row)
         ELSE <<row>> \o sorted

\* list.sort(key=fit_score, reverse=True) is stable: a row goes behind every
\* row already placed whose fit_score is not smaller
RECURSIVE InsertByFitScore(_, _)
InsertByFitScore(sorted, row) ==
    IF sorted = <<>> THEN <<row>>
    ELSE IF Head(sorted).fit_score >= row.fit_score
         THEN <<Head(sorted)>> \o InsertByFitScore(Tail(sorted), row)
         ELSE <<row>> \o sorted

RECURSIVE SortByFitScore(_, _)
SortByFitScore(rows, sorted) ==
    IF rows = <<>> THEN sorted
    ELSE SortByFitScore(Tail(rows), InsertByFitScore(sorted, Head(rows)))

\* df.sort_values('Fit Score', ascending=False) with the default kind
\* 'quicksort', which is not stable: every arrangement of the rows with
\* non-increasing Fit Score
SortValues(rows) ==
    {[i \in 1..Len(rows) |-> rows[p[i]]] : p \in
        {q \in Orderings(1..Len(rows)) :
            \A i \in 1..(Len(rows) - 1) :
                rows[q[i]].Fit_Score >= rows[q[i + 1]].Fit_Score}}

\* the preferred matches that are required as well listed once
all_matching_Distinct(analysis_result) ==
    analysis_result.matching_required
        \o SelectSeq(analysis_result.matching_preferred,
                     LAMBDA x : x \notin SeqToSet(analysis_result.matching_required))

\* analysis_result['matching_required'] + analysis_result['matching_preferred']
all_matching(analysis_result) ==
    analysis_result.matching_required \o analysis_result.matching_preferred

\* a resume whose experience is below the job's minimum analyzed as a
\* resume without skills
AnalyzeRequest_ExperienceGate(resume, job_req) ==
    IF /\ resume.experience_years # <<>>
       /\ job_req.min_experience # <<>>
       /\ resume.experience_years[1] < job_req.min_experience[1]
    THEN analyze_skill_gap(<<>>, job_req.required_skills, job_req.preferred_skills)
    ELSE analyze_skill_gap(resume.skills, job_req.required_skills,
                           job_req.preferred_skills)

\* skill_matcher.analyze_skill_gap(resume_skills=..., required_skills=...,
\* preferred_skills=... or []) as the two endpoints call it
AnalyzeRequest(resume, job_req) ==
    analyze_skill_gap(resume.skills, job_req.required_skills,
                      job_req.preferred_skills)

\* the loop of batch_match over the jobs
RECURSIVE AnalyzeRequests(_, _)
AnalyzeRequests(resume, jobs) ==
    IF jobs = <<>> THEN {<<>>}
    ELSE {<<a>> \o rest : a \in AnalyzeRequest(resume, Head(jobs)),
                          rest \in AnalyzeRequests(resume, Tail(jobs))}

\* POST /match_resume: the responses the endpoint can give to a request,
\* each with the required_skills it passed to the analyzer
match_resume(resume, job_requirement) ==
    IF resume.skills = <<>>
    THEN {[response |-> [status_code |-> 400,
                         detail |-> "Resume skills cannot be empty"],
           match_result |-> NoMatch, calls |-> <<>>]}
    ELSE IF job_requirement.required_skills = <<>>
    THEN {[response |-> [status_code |-> 400,
                         detail |-> "Job required skills cannot be empty"],
           match_result |-> NoMatch, calls |-> <<>>]}
    ELSE {[response |-> [status_code |-> 200, detail |-> ""],
           match_result |->
               [job_fit_score     |-> analysis_result.job_fit_score,
                matching_skills   |-> all_matching(analysis_result),
                missing_skills    |-> analysis_result.missing_required,
                additional_skills |-> analysis_result.additional_skills,
                similarity_score  |-> analysis_result.similarity_score,
                recommendations   |->
                    generate_recommendations(analysis_result.missing_required,
                                             analysis_result.missing_preferred,
                                             analysis_result.job_fit_score),
                job_title         |-> job_requirement.job_title],
           calls |-> <<job_requirement.required_skills>>] :
              analysis_result \in AnalyzeRequest(resume, job_requirement)}

\* POST /batch_match: the responses the endpoint can give to a request
batch_match_resume(resume, jobs) ==
    IF resume.skills = <<>>
    THEN {[response |-> [status_code |-> 400,
                         detail |-> "Resume skills cannot be empty"],
           results |-> <<>>, calls |-> <<>>]}
    ELSE IF jobs = <<>>
    THEN {[response |-> [status_code |-> 400,
                         detail |-> "Job requirements list cannot be empty"],
           results |-> <<>>, calls |-> <<>>]}
    ELSE {[response |-> [status_code |-> 200, detail |-> ""],
           results |-> SortByFitScore([i \in 1..Len(jobs) |->
                                          BatchRow(jobs[i], analyses[i])], <<>>),
           calls |-> [i \in 1..Len(jobs) |-> jobs[i].required_skills]] :
              analyses \in AnalyzeRequests(resume, jobs)}

\* the resume_skills object of the request
RequestResume ==
    [skills           |-> req_skills,
     experience_years |-> req_optional.experience_years,
     education        |-> req_optional.education,
     job_titles       |-> req_optional.job_titles]

\* POST /match_resume with the first job of the request
MatchResume ==
    /\ apc = "start"
    /\ Len(job_requirements) = 1
    /\ \E out \in match_resume(RequestResume, job_requirements[1]) :
         /\ response' = out.response
         /\ match_result' = out.match_result
         /\ analyzer_calls' = analyzer_calls \o out.calls
    /\ apc' = "matched"
    /\ UNCHANGED <<req_skills, req_optional, job_requirements, results, matrix>>

\* POST /batch_match
BatchMatchResume ==
    /\ apc = "start"
    /\ \E out \in batch_match_resume(RequestResume, job_requirements) :
         /\ response' = out.response
         /\ results' = out.results
         /\ analyzer_calls' = analyzer_calls \o out.calls
    /\ apc' = "batched"
    /\ UNCHANGED <<req_skills, req_optional, job_requirements, match_result, matrix>>

\* matcher.create_skill_matrix(req_skills, job_requirements); a frame built
\* from no rows has no 'Fit Score' column and sort_values raises KeyError
CreateSkillMatrix ==
    /\ apc = "start"
    /\ IF job_requirements = <<>>
       THEN /\ matrix' = [raised |-> TRUE, rows |-> <<>>]
            /\ UNCHANGED analyzer_calls
       ELSE \E analyses \in AnalyzeJobs(req_skills, job_requirements) :
            /\ analyzer_calls' =
                 analyzer_calls \o [i \in 1..Len(job_requirements) |->
                                        job_requirements[i].required_skills]
            /\ \E df \in SortValues([i \in 1..Len(job_requirements) |->
                                        MatrixRow(job_requirements[i], analyses[i])]) :
                 matrix' = [raised |-> FALSE, rows |-> df]
    /\ apc' = "matrix"
    /\ UNCHANGED <<req_skills, req_optional, job_requirements, response, results, match_result>>

(***************************************************************************)
(* upload_resume (backend/main.py) and the decoding front of ResumeParser  *)
(***************************************************************************)
\* The uploaded bytes are described by what the two decoding libraries make
\* of them: size is the number of bytes; pdf is TRUE when PyPDF2 reads them
\* and pages are then the page texts; docx is TRUE when python-docx reads
\* them and paragraphs and tables are then the document's content.
NoBytes ==
    [size |-> 0, pdf |-> FALSE, pages |-> <<>>, docx |-> FALSE,
     paragraphs |-> <<>>, tables |-> <<>>]

GarbageBytes ==
    [size |-> 1, pdf |-> FALSE, pages |-> <<>>, docx |-> FALSE,
     paragraphs |-> <<>>, tables |-> <<>>]

PdfBytes ==
    [size |-> 2, pdf |-> TRUE, pages |-> <<" Jane Doe", "Python ">>, docx |-> FALSE,
     paragraphs |-> <<>>, tables |-> <<>>]

BlankPdfBytes ==
    [size |-> 2, pdf |-> TRUE, pages |-> <<>>, docx |-> FALSE,
     paragraphs |-> <<>>, tables |-> <<>>]

DocxBytes ==
    [size |-> 2, pdf |-> FALSE, pages |-> <<>>, docx |-> TRUE,
     paragraphs |-> <<"Jane Doe">>, tables |-> << << <<"SQL", "Git">> >> >>]

BlankDocxBytes ==
    [size |-> 2, pdf |-> FALSE, pages |-> <<>>, docx |-> TRUE,
     paragraphs |-> <<>>, tables |-> <<>>]

RECURSIVE Repeat(_, _)
Repeat(s, n) == IF n = 0 THEN "" ELSE s \o Repeat(s, n - 1)

\* a page of more characters than the text preview holds
LongPdfBytes ==
    [size |-> 3, pdf |-> TRUE, pages |-> <<Repeat("python java ", 42)>>, docx |-> FALSE,
     paragraphs |-> <<>>, tables |-> <<>>]

FileContents ==
    {NoBytes, GarbageBytes, PdfBytes, BlankPdfBytes, LongPdfBytes, DocxBytes,
     BlankDocxBytes}

FileNames ==
    {"cv.pdf", "CV.PDF", "cv.docx", "Cv.DocX", "old.cv.doc", "cv.txt", "cv.pdf.exe",
     "cv", "pdf", "cv.pdf."}

\* the messages of the exceptions the decoding libraries raise
PdfReadError == "EOF marker not found"
BadZipFile   == "File is not a zip file"

allowed_extensions == <<"pdf", "docx", "doc">>

\* s.split('.')[-1]
RECURSIVE LastPart(_, _)
LastPart(s, cur) ==
    IF s = "" THEN cur
    ELSE IF Head(s) = "." THEN LastPart(Tail(s), "")
    ELSE LastPart(Tail(s), cur \o Head(s))

\* filename.lower().split('.')[-1]
file_extension(name) == LastPart(Lower(name), "")

\* text += part + sep, over the parts in order
RECURSIVE Concat(_, _)
Concat(parts, sep) ==
    IF parts = <<>> THEN "" ELSE Head(parts) \o sep \o Concat(Tail(parts), sep)

\* the value a call returns, or the exception it raises
Returned(v) == [exc |-> "", value |-> v, message |-> ""]
Raised(e, m) == [exc |-> e, value |-> "", message |-> m]

parse_pdf(content) ==
    IF content.pdf
    THEN Returned(Strip(Concat(content.pages, "\n")))
    ELSE Raised("ValueError", "Error parsing PDF: " \o PdfReadError)

\* the text of a table: the cells of a row each followed by a space, the
\* row followed by a newline
RECURSIVE TableText(_)
TableText(rows) ==
    IF rows = <<>> THEN ""
    ELSE Concat(Head(rows), " ") \o "\n" \o TableText(Tail(rows))

RECURSIVE TablesText(_)
TablesText(tables) ==
    IF tables = <<>> THEN "" ELSE TableText(Head(tables)) \o TablesText(Tail(tables))

parse_docx(content) ==
    IF content.docx
    THEN Returned(Strip(Concat(content.paragraphs, "\n") \o TablesText(content.tables)))
    ELSE Raised("ValueError", "Error parsing DOCX: " \o BadZipFile)

\* the decoder parse_resume picks for a file name, "" when it picks none
DecoderFor(name) ==
    IF file_extension(name) = "pdf" THEN "parse_pdf"
    ELSE IF file_extension(name) \in {"docx", "doc"} THEN "parse_docx"
    ELSE ""

parse_resume(content, name) ==
    IF DecoderFor(name) = "parse_pdf" THEN parse_pdf(content)
    ELSE IF DecoderFor(name) = "parse_docx" THEN parse_docx(content)
    ELSE Raised("ValueError", "Unsupported file format: " \o file_extension(name)
                    \o ". Please upload PDF or DOCX files.")

\* the extractors parse_resume_full runs on the decoded text, in order
Extractors ==
    <<"extract_name", "extract_email", "extract_phone", "extract_skills_from_text",
      "extract_education", "extract_work_experience", "extract_experience_years">>

PreviewLen == 500

\* parsed_data['text'][:500] + "..." if len(parsed_data['text']) > 500 else the text
text_preview(text) ==
    IF Len(text) > PreviewLen THEN SubSeq(text, 1, PreviewLen) \o "..." ELSE text

\* str(e) of an HTTPException(400, detail): "400: <detail>" where the framework
\* defines __str__, and "" where it leaves Exception's own (no positional
\* argument is stored)
HTTPExceptionStr(detail) == {"400: " \o detail, ""}

\* the try block of upload_resume: what it returns or raises, with the
\* decoders and extractors it ran
UploadTry(name, content) ==
    IF file_extension(name) \notin SeqToSet(allowed_extensions)
    THEN [decoders |-> <<>>, extractors |-> <<>>,
          out |-> Raised("HTTPException", "Invalid file type. Allowed types: "
                             \o Join(allowed_extensions, ", "))]
    ELSE IF content.size = 0
    THEN [decoders |-> <<>>, extractors |-> <<>>,
          out |-> Raised("HTTPException", "Empty file uploaded")]
    ELSE LET text == parse_resume(content, name) IN
         IF text.exc # ""
         THEN [decoders |-> <<DecoderFor(name)>>, extractors |-> <<>>, out |-> text]
         ELSE [decoders |-> <<DecoderFor(name)>>, extractors |-> Extractors,
               out |-> Returned(text_preview(text.value))]

UploadExcept_ValueErrorAs500(out) ==
    IF out.exc = ""
    THEN {[status_code |-> 200, detail |-> "", text_preview |-> out.value]}
    ELSE {[status_code |-> 500, detail |-> "Error processing resume: " \o m,
           text_preview |-> ""] :
             m \in IF out.exc = "HTTPException"
                   THEN HTTPExceptionStr(out.message) ELSE {out.message}}

\* the except clauses of upload_resume: ValueError becomes a 400 with the
\* exception's message, every other exception, HTTPException included,
\* becomes a 500
UploadExcept(out) ==
    IF out.exc = ""
    THEN {[status_code |-> 200, detail |-> "", text_preview |-> out.value]}
    ELSE IF out.exc = "ValueError"
    THEN {[status_code |-> 400, detail |-> out.message, text_preview |-> ""]}
    ELSE {[status_code |-> 500, detail |-> "Error processing resume: " \o m,
           text_preview |-> ""] : m \in HTTPExceptionStr(out.message)}

NoUpload == [status_code |-> 0, detail |-> "", text_preview |-> ""]

UploadInit ==
    /\ filename \in FileNames
    /\ file_content \in FileContents
    /\ decoder_calls = <<>>
    /\ extractor_calls = <<>>
    /\ upload_response = NoUpload
    /\ upc = "start"

UploadIdle ==
    /\ filename = ""
    /\ file_content = NoBytes
    /\ decoder_calls = <<>>
    /\ extractor_calls = <<>>
    /\ upload_response = NoUpload
    /\ upc = "idle"

\* POST /upload_resume
UploadResume ==
    /\ upc = "start"
    /\ LET try == UploadTry(filename, file_content) IN
       /\ decoder_calls' = try.decoders
       /\ extractor_calls' = try.extractors
       /\ upload_response' \in UploadExcept(try.out)
    /\ upc' = "done"
    /\ UNCHANGED <<filename, file_content>>

(***************************************************************************)
(* Calls of analyze_skill_gap on the one SkillMatcher of the process       *)
(* (skill_matcher in backend/main.py)                                      *)
(***************************************************************************)
MaxCalls == 3

\* the callers that run analyses in parallel
Threads == {"t1", "t2"}

\* Argument triples: two whose vocabularies have three terms each with a
\* different term shared by both documents, one whose documents are equal,
\* one with no token of two characters, and one with an empty resume.
CallArgs ==
    {[resume |-> <<"python">>,         required |-> <<"python", "java">>,    preferred |-> <<>>],
     [resume |-> <<"java", "python">>, required |-> <<"java">>,              preferred |-> <<"sql">>],
     [resume |-> <<"ML">>,             required |-> <<"Machine Learning">>,  preferred |-> <<>>],
     [resume |-> <<"C">>,              required |-> <<"C">>,                 preferred |-> <<>>],
     [resume |-> <<>>,                 required |-> <<"python">>,            preferred |-> <<>>]}

NoArgs == [resume |-> <<>>, required |-> <<>>, preferred |-> <<>>]

IdleCall == [args |-> NoArgs, pc |-> "idle", X |-> <<>>, result |-> NoAnalysis]

StartCall(a) == [args |-> a, pc |-> "start", X |-> <<>>, result |-> NoAnalysis]

VecIdle ==
    /\ vectorizer = FreshVectorizer(TRUE)
    /\ calls = [t \in Threads |-> IdleCall]
    /\ history = <<>>

\* a new matcher and no call yet
SeqInit ==
    /\ vectorizer \in {FreshVectorizer(b) : b \in BOOLEAN}
    /\ calls = [t \in Threads |-> IdleCall]
    /\ history = <<>>

\* a new matcher and every caller about to call analyze_skill_gap
ParInit ==
    /\ vectorizer \in {FreshVectorizer(b) : b \in BOOLEAN}
    /\ calls \in [Threads -> {StartCall(a) : a \in CallArgs}]
    /\ history = <<>>

\* one more call of skill_matcher.analyze_skill_gap, run from start to end
AnalyzeNext ==
    /\ Len(history) < MaxCalls
    /\ \E a \in CallArgs :
         LET call == AnalyzeOn(vectorizer, a.resume, a.required, a.preferred) IN
         /\ vectorizer' = call.vectorizer_
         /\ \E r \in call.results :
              calls' = [calls EXCEPT !["t1"] =
                           [args |-> a, pc |-> "done", X |-> <<>>, result |-> r]]
         /\ history' = Append(history, a)

DocumentsOf(t) == Documents(calls[t].args.resume, calls[t].args.required)

\* the rest of analyze_skill_gap once calculate_similarity has returned
Finish(t, similarity_score) ==
    \E r \in GapAnalysis(calls[t].args.resume, calls[t].args.required,
                         calls[t].args.preferred, similarity_score) :
        calls' = [calls EXCEPT ![t].pc = "done", ![t].result = r]

\* caller t enters calculate_similarity: an empty text returns 0.0 at once,
\* otherwise fit_transform starts
Begin(t) ==
    /\ calls[t].pc = "start"
    /\ IF EmptyText(DocumentsOf(t))
       THEN Finish(t, 0) /\ UNCHANGED vectorizer
       ELSE /\ vectorizer' = [vectorizer EXCEPT !.tfidf = StartTfidf(vectorizer)]
            /\ calls' = [calls EXCEPT ![t].pc = "reset"]
    /\ UNCHANGED history

\* caller t counts its documents and stores the vocabulary
CountVocab(t) ==
    /\ calls[t].pc = "reset"
    /\ LET counted == count_vocab(DocumentsOf(t)) IN
       IF counted.raised
       THEN Finish(t, 0) /\ UNCHANGED vectorizer
       ELSE /\ vectorizer' = [vectorizer EXCEPT !.vocabulary_ = counted.vocabulary_]
            /\ calls' = [calls EXCEPT ![t].pc = "counted", ![t].X = counted.X]
    /\ UNCHANGED history

\* caller t runs self._tfidf.fit(X) on the transformer the vectorizer holds
TfidfFit(t) ==
    /\ calls[t].pc = "counted"
    /\ vectorizer' = [vectorizer EXCEPT !.tfidf = tfidf_fit(calls[t].X)]
    /\ calls' = [calls EXCEPT ![t].pc = "fitted"]
    /\ UNCHANGED history

\* caller t runs self._tfidf.transform(X) on the transformer the vectorizer
\* holds, takes the cosine (0.0 when an exception was raised) and finishes
TfidfTransform(t) ==
    /\ calls[t].pc = "fitted"
    /\ LET similarity == tfidf_transform(vectorizer.tfidf, calls[t].X) IN
       Finish(t, IF similarity.raised THEN 0 ELSE similarity.value)
    /\ UNCHANGED <<vectorizer, history>>

(***************************************************************************)
(* ResumeParser: extract_name, extract_education, extract_work_experience  *)
(* as parse_resume_full runs them on the decoded text                      *)
(***************************************************************************)
\* An Optional[str] is <<>> for None and <<s>> for the string s.

\* the least member of a non-empty set of numbers
MinOf(S) == CHOOSE x \in S : \A y \in S : x <= y
MaxOf(S) == CHOOSE x \in S : \A y \in S : y <= x

\* s.split(sep) for a separator of one character: the parts between the
\* separators, the start and the end of s
SplitOn(s, sep) ==
    LET at   == {i \in 1..Len(s) : CharAt(s, i) = sep}
        cuts == {0} \cup at \cup {Len(s) + 1}
        from == [k \in 1..(Cardinality(at) + 1) |->
                    CHOOSE c \in cuts : Cardinality({d \in cuts : d < c}) = k - 1]
    IN  [k \in 1..(Cardinality(at) + 1) |->
            SubSeq(s, from[k] + 1, MinOf({c \in cuts : c > from[k]}) - 1)]

\* s.split(): the maximal runs of characters that are not whitespace
RECURSIVE Words(_, _)
Words(s, cur) ==
    IF s = "" THEN (IF cur = "" THEN <<>> ELSE <<cur>>)
    ELSE IF Head(s) \in SpaceChars
         THEN (IF cur = "" THEN <<>> ELSE <<cur>>) \o Words(Tail(s), "")
         ELSE Words(Tail(s), cur \o Head(s))

RECURSIVE Upper(_)
Upper(s) == IF s = "" THEN "" ELSE UpperChar(Head(s)) \o Upper(Tail(s))

\* s.replace(c, '') for a character c
RECURSIVE RemoveChar(_, _)
RemoveChar(s, c) ==
    IF s = "" THEN ""
    ELSE IF Head(s) = c THEN RemoveChar(Tail(s), c)
    ELSE Head(s) \o RemoveChar(Tail(s), c)

LetterSet == UpperSet \cup LowerSet

\* str.isalpha() on the characters the model uses
IsAlpha(s) == s # "" /\ \A i \in 1..Len(s) : CharAt(s, i) \in LetterSet

NameWindow == 5
MaxNameWords == 4
NameHeaders == {"RESUME", "CV", "CURRICULUM VITAE"}

\* 1 <= len(words) <= 4 and all(word.replace('.', '').isalpha() for word in words)
LooksLikeName(line) ==
    LET words == Words(line, "")
    IN  /\ 1 <= Len(words)
        /\ Len(words) <= MaxNameWords
        /\ \A i \in 1..Len(words) : IsAlpha(RemoveChar(words[i], "."))

\* the loop of extract_name over lines[:5]
RECURSIVE NameAmong(_)
NameAmong(lines) ==
    IF lines = <<>> THEN <<>>
    ELSE LET line == Strip(Head(lines))
         IN  IF line = "" \/ Upper(line) \in NameHeaders THEN NameAmong(Tail(lines))
             ELSE IF LooksLikeName(line) THEN <<line>>
             ELSE NameAmong(Tail(lines))

extract_name(text) == NameAmong(Take(SplitOn(Strip(text), "\n"), NameWindow))

(***************************************************************************)
(* The regular expressions of the parser, matched by hand.  A position is  *)
(* an index into the string, from 1; a matcher gives the position behind   *)
(* the match, or 0 when there is none.                                     *)
(***************************************************************************)
\* the literal w at position i, letter case ignored
LitCI(s, i, w) ==
    IF i >= 1 /\ i + Len(w) - 1 <= Len(s)
          /\ \A k \in 1..Len(w) :
                LowerChar(CharAt(s, i + k - 1)) = LowerChar(CharAt(w, k))
    THEN i + Len(w) ELSE 0

\* the literal w at position i, letter case kept
Lit(s, i, w) ==
    IF i >= 1 /\ i + Len(w) - 1 <= Len(s) /\ SubSeq(s, i, i + Len(w) - 1) = w
    THEN i + Len(w) ELSE 0

\* w? : behind w when it is there, else i
OptCI(s, i, w) == IF LitCI(s, i, w) # 0 THEN LitCI(s, i, w) ELSE i

\* the first position from i on whose character is not in cls
SkipWhile(s, i, cls) ==
    IF i < 1 THEN 0
    ELSE MinOf({j \in i..(Len(s) + 1) : j = Len(s) + 1 \/ CharAt(s, j) \notin cls})

\* \s* and \s+
SkipSpaces(s, i) == SkipWhile(s, i, SpaceChars)
Spaces1(s, i) == IF SkipSpaces(s, i) > i THEN SkipSpaces(s, i) ELSE 0

\* (?:w1|w2|...) : the first alternative that matches
RECURSIVE AltCI(_, _, _)
AltCI(s, i, ws) ==
    IF ws = <<>> THEN 0
    ELSE IF LitCI(s, i, Head(ws)) # 0 THEN LitCI(s, i, Head(ws))
    ELSE AltCI(s, i, Tail(ws))

\* a then \s+ then b then \s+ then c
ThreeWords(s, i, a, b, c) ==
    LET p1 == LitCI(s, i, a)
        p2 == IF p1 = 0 THEN 0 ELSE Spaces1(s, p1)
        p3 == IF p2 = 0 THEN 0 ELSE LitCI(s, p2, b)
        p4 == IF p3 = 0 THEN 0 ELSE Spaces1(s, p3)
    IN  IF p4 = 0 THEN 0 ELSE LitCI(s, p4, c)

\* B\.?Tech\s+(?:CSE|CS|IT|ECE|EE|ME)?(?:\s+AI\s*&?\s*ML)?
MatchBTech(s, i) ==
    LET p1 == LitCI(s, i, "B")
        p2 == IF p1 = 0 THEN 0 ELSE LitCI(s, OptCI(s, p1, "."), "Tech")
        p3 == IF p2 = 0 THEN 0 ELSE Spaces1(s, p2)
        br == AltCI(s, p3, <<"CSE", "CS", "IT", "ECE", "EE", "ME">>)
        p4 == IF br # 0 THEN br ELSE p3
        a1 == Spaces1(s, p4)
        a2 == IF a1 = 0 THEN 0 ELSE LitCI(s, a1, "AI")
        a3 == IF a2 = 0 THEN 0
              ELSE LitCI(s, SkipSpaces(s, OptCI(s, SkipSpaces(s, a2), "&")), "ML")
    IN  IF p3 = 0 THEN 0 ELSE IF a3 # 0 THEN a3 ELSE p4

\* M\.?Tech
MatchMTech(s, i) ==
    LET p1 == LitCI(s, i, "M")
    IN  IF p1 = 0 THEN 0 ELSE LitCI(s, OptCI(s, p1, "."), "Tech")

\* B\.?E\.?
MatchBE(s, i) ==
    LET p1 == LitCI(s, i, "B")
        p2 == IF p1 = 0 THEN 0 ELSE LitCI(s, OptCI(s, p1, "."), "E")
    IN  IF p2 = 0 THEN 0 ELSE OptCI(s, p2, ".")

\* 12th|XII|Higher\s+Secondary
Match12th(s, i) ==
    IF LitCI(s, i, "12th") # 0 THEN LitCI(s, i, "12th")
    ELSE IF LitCI(s, i, "XII") # 0 THEN LitCI(s, i, "XII")
    ELSE LET p1 == LitCI(s, i, "Higher")
             p2 == IF p1 = 0 THEN 0 ELSE Spaces1(s, p1)
         IN  IF p2 = 0 THEN 0 ELSE LitCI(s, p2, "Secondary")

\* $ : the end of the string, or the newline that ends it
AtEnd(s, i) == i = Len(s) + 1 \/ (i = Len(s) /\ CharAt(s, i) = "\n")

\* 10th|X(?:\s+|$)
Match10th(s, i) ==
    IF LitCI(s, i, "10th") # 0 THEN LitCI(s, i, "10th")
    ELSE LET p1 == LitCI(s, i, "X")
         IN  IF p1 = 0 THEN 0
             ELSE IF Spaces1(s, p1) # 0 THEN Spaces1(s, p1)
             ELSE IF AtEnd(s, p1) THEN p1 ELSE 0

\* degree_patterns: the 11 patterns in order, each with its degree_name
NumDegreePatterns == 11

degree_name ==
    <<"B.Tech", "B.Tech", "M.Tech", "M.Tech", "B.E.", "B.E.", "BCA", "MCA", "MBA",
      "12th", "10th">>

MatchDegree(p, s, i) ==
    CASE p = 1  -> MatchBTech(s, i)
      [] p = 2  -> ThreeWords(s, i, "Bachelor", "of", "Technology")
      [] p = 3  -> MatchMTech(s, i)
      [] p = 4  -> ThreeWords(s, i, "Master", "of", "Technology")
      [] p = 5  -> MatchBE(s, i)
      [] p = 6  -> ThreeWords(s, i, "Bachelor", "of", "Engineering")
      [] p = 7  -> LitCI(s, i, "BCA")
      [] p = 8  -> LitCI(s, i, "MCA")
      [] p = 9  -> LitCI(s, i, "MBA")
      [] p = 10 -> Match12th(s, i)
      [] p = 11 -> Match10th(s, i)

\* re.finditer(pattern, edu_text, re.IGNORECASE): the matches from left to
\* right, each starting at or behind the end of the one before; start and
\* end as Python counts them (from 0, end exclusive)
RECURSIVE FindIter(_, _, _)
FindIter(p, s, i) ==
    LET found == {j \in i..Len(s) : MatchDegree(p, s, j) # 0}
    IN  IF found = {} THEN <<>>
        ELSE LET j == MinOf(found)
                 e == MatchDegree(p, s, j)
             IN  <<[pattern |-> p, start |-> j - 1, end |-> e - 1]>>
                     \o FindIter(p, s, e)

\* the matches in the order the two nested loops visit them
RECURSIVE DegreeMatches(_, _)
DegreeMatches(s, p) ==
    IF p > NumDegreePatterns THEN <<>>
    ELSE FindIter(p, s, 1) \o DegreeMatches(s, p + 1)

\* s[a:b] of Python for 0 <= a <= b <= len(s)
Slice(s, a, b) == SubSeq(s, a + 1, b)

IsDigit(s, i) == i <= Len(s) /\ CharAt(s, i) \in DigitSet

\* re.search(r'(20\d{2}|19\d{2})', context): group(0), or None
SearchYear(s) ==
    LET found == {i \in 1..(Len(s) - 3) :
                     /\ SubSeq(s, i, i + 1) \in {"20", "19"}
                     /\ IsDigit(s, i + 2)
                     /\ IsDigit(s, i + 3)}
    IN  IF found = {} THEN <<>> ELSE <<SubSeq(s, MinOf(found), MinOf(found) + 3)>>

\* (\d+\.?\d*)\s*(?:%|CGPA|cgpa) at position i, letter case ignored
MatchScore(s, i) ==
    LET p1 == IF IsDigit(s, i) THEN SkipWhile(s, i, DigitSet) ELSE 0
        p2 == IF p1 = 0 THEN 0
              ELSE SkipSpaces(s, SkipWhile(s, OptCI(s, p1, "."), DigitSet))
    IN  IF p2 = 0 THEN 0 ELSE AltCI(s, p2, <<"%", "CGPA">>)

\* re.search of the score pattern: group(0), or None
SearchScore(s) ==
    LET found == {i \in 1..Len(s) : MatchScore(s, i) # 0}
    IN  IF found = {} THEN <<>>
        ELSE <<SubSeq(s, MinOf(found), MatchScore(s, MinOf(found)) - 1)>>

InstitutionWords == {"University", "College", "Board", "Institute"}

\* ([A-Z][A-Za-z\s]+(?:University|College|Board|Institute)) at position i:
\* the greedy class run gives the last place where one of the words ends
\* inside the run of letters and whitespace behind the capital
MatchInstitution(s, i) ==
    IF ~(i <= Len(s) /\ CharAt(s, i) \in UpperSet) THEN 0
    ELSE LET run  == SkipWhile(s, i + 1, LetterSet \cup SpaceChars)
             ends == {Lit(s, k, w) : k \in (i + 2)..Len(s), w \in InstitutionWords}
                         \cap (1..run)
         IN  IF ends = {} THEN 0 ELSE MaxOf(ends)

\* re.search of the institution pattern: group(1).strip(), or None
SearchInstitution(s) ==
    LET found == {i \in 1..Len(s) : MatchInstitution(s, i) # 0}
    IN  IF found = {} THEN <<>>
        ELSE <<Strip(SubSeq(s, MinOf(found), MatchInstitution(s, MinOf(found)) - 1))>>

\* the section regex: one of the headers, [\s:]*\n, then the shortest text
\* up to a blank line followed by two letters, to a newline followed by
\* line_marker, to one of the markers, or to the end; group(1), or None
BehindHeader(s, i, headers) ==
    LET behind == {LitCI(s, i, headers[h]) : h \in 1..Len(headers)} \ {0}
    IN  IF behind = {} THEN {}
        ELSE {k + 1 : k \in {k \in 1..Len(s) :
                /\ CharAt(s, k) = "\n"
                /\ \E b \in behind :
                      /\ b <= k
                      /\ \A j \in b..k : CharAt(s, j) \in SpaceChars \cup {":"}}}

SectionEnds(s, e, line_marker, markers) ==
    \/ /\ Lit(s, e, "\n\n") # 0
       /\ e + 3 <= Len(s)
       /\ CharAt(s, e + 2) \in LetterSet
       /\ CharAt(s, e + 3) \in LetterSet
    \/ LitCI(s, e, "\n" \o line_marker) # 0
    \/ \E m \in markers : LitCI(s, e, m) # 0
    \/ AtEnd(s, e)

\* the leftmost match of the section pattern: the header at the first
\* position where one is followed by its newline, and .*? up to the first
\* position where the section ends
SectionFrom(s, headers, line_marker, markers) ==
    LET found == {i \in 1..Len(s) : BehindHeader(s, i, headers) # {}}
    IN  IF found = {} THEN <<>>
        ELSE LET b == MaxOf(BehindHeader(s, MinOf(found), headers))
                 e == MinOf({x \in b..(Len(s) + 1) :
                                SectionEnds(s, x, line_marker, markers)})
             IN  <<SubSeq(s, b, e - 1)>>

ContextBefore == 50
ContextAfter == 150

Max(a, b) == IF a > b THEN a ELSE b
Min(a, b) == IF a < b THEN a ELSE b

\* the entry appended for a match
EducationEntry(edu_text, match) ==
    LET degree_full   == Strip(Slice(edu_text, match.start, match.end))
        context_start == Max(0, match.start - ContextBefore)
        context_end   == Min(Len(edu_text), match.end + ContextAfter)
        context       == Slice(edu_text, context_start, context_end)
    IN  [degree      |-> degree_full,
         institution |-> SearchInstitution(context),
         year        |-> SearchYear(context),
         score       |-> SearchScore(context)]

\* every match appended, seen or not
EducationLoop_NoSeenCheck(edu_text, matches, seen_degrees, education) ==
    education \o [k \in 1..Len(matches) |-> EducationEntry(edu_text, matches[k])]

\* the two nested loops over the patterns and their matches
RECURSIVE EducationLoop(_, _, _, _)
EducationLoop(edu_text, matches, seen_degrees, education) ==
    IF matches = <<>> THEN education
    ELSE LET match == Head(matches)
             label == degree_name[match.pattern]
         IN  IF label \in seen_degrees
             THEN EducationLoop(edu_text, Tail(matches), seen_degrees, education)
             ELSE EducationLoop(edu_text, Tail(matches), seen_degrees \cup {label},
                                Append(education, EducationEntry(edu_text, match)))

EducationHeaders == <<"ACADEMIC QUALIFICATION", "EDUCATION", "EDUCATIONAL QUALIFICATION">>
EducationMarkers == {"EXPERIENCE", "SKILLS", "PROJECTS"}

\* re.search(edu_section_pattern, text, re.IGNORECASE | re.DOTALL)
EducationSection(text) ==
    SectionFrom(text, EducationHeaders, "WORK", EducationMarkers)

extract_education(text) ==
    LET section == EducationSection(text)
    IN  IF section = <<>> THEN <<>>
        ELSE EducationLoop(section[1], DegreeMatches(section[1], 1), {}, <<>>)

TitlePrefixes ==
    <<"Software", "Senior", "Junior", "Lead", "Full Stack", "Backend", "Frontend",
      "Data", "ML", "DevOps">>
TitleRoles == <<"Engineer", "Developer", "Analyst", "Manager", "Intern">>

\* the characters of [A-Za-z\s&,\.]
CompanyChars == LetterSet \cup SpaceChars \cup {"&", ",", "."}

\* [-–]; the en dash is not among the characters of the model's texts
DashChars == {"-"}

YearDigits == 4

\* \d{4} at position i
FourDigits(s, i) ==
    IF i >= 1 /\ \A k \in 0..(YearDigits - 1) : IsDigit(s, i + k)
    THEN i + YearDigits ELSE 0

\* ((?:Software|...)?\s*(?:Engineer|...)) at position i: the role behind a
\* prefix when that matches, else the role alone
MatchTitle(line, i) ==
    LET prefixed == AltCI(line, SkipSpaces(line, AltCI(line, i, TitlePrefixes)),
                          TitleRoles)
    IN  IF prefixed # 0 THEN prefixed ELSE AltCI(line, SkipSpaces(line, i), TitleRoles)

\* \s+([A-Za-z\s&,\.]+?)\s* at position a, in front of the bracket: a space,
\* then at least one more character of the class
MatchCompany(line, a) ==
    IF a >= 1 /\ a <= Len(line) /\ CharAt(line, a) \in SpaceChars
    THEN LET r == SkipWhile(line, a, CompanyChars)
         IN  IF r < a + 2 THEN 0 ELSE r
    ELSE 0

\* \s*[-–]\s* at position y
MatchDash(line, y) ==
    LET p == SkipSpaces(line, y)
    IN  IF p >= 1 /\ p <= Len(line) /\ CharAt(line, p) \in DashChars
        THEN SkipSpaces(line, p + 1) ELSE 0

\* (?:\d{4}|Present|Current) at position h
MatchUntil(line, h) ==
    LET year == FourDigits(line, h)
    IN  IF year # 0 THEN year ELSE AltCI(line, h, <<"Present", "Current">>)

\* the pattern of a job line at position i: the three groups, stripped as
\* the code strips them, or <<>> when the pattern does not match there.  The
\* company is the text between the whitespace behind "at" and the bracket.
MatchExperience(line, i) ==
    LET t == MatchTitle(line, i)
        a == LitCI(line, Spaces1(line, t), "at")
        d == Lit(line, MatchCompany(line, a), "(")
        e == MatchUntil(line, MatchDash(line, FourDigits(line, d)))
    IN  IF e = 0 THEN <<>>
        ELSE <<[title    |-> Strip(SubSeq(line, i, t - 1)),
                company  |-> Strip(SubSeq(line, a, d - 2)),
                duration |-> Strip(SubSeq(line, d, e - 1))]>>

\* re.search of the job-line pattern: the groups of the leftmost match
SearchExperience(line) ==
    LET found == {i \in 1..Len(line) : MatchExperience(line, i) # <<>>}
    IN  IF found = {} THEN <<>> ELSE MatchExperience(line, MinOf(found))

\* the key built from the company alone
entry_key_CompanyOnly(entry) == entry.company

\* f"{title}|{company}"
entry_key(entry) == entry.title \o "|" \o entry.company

\* the loop over the lines of the section
RECURSIVE ExperienceLoop(_, _, _)
ExperienceLoop(lines, seen_entries, experiences) ==
    IF lines = <<>> THEN experiences
    ELSE LET line      == Strip(Head(lines))
             exp_match == IF line = "" THEN <<>> ELSE SearchExperience(line)
         IN  IF exp_match = <<>> \/ entry_key(exp_match[1]) \in seen_entries
             THEN ExperienceLoop(Tail(lines), seen_entries, experiences)
             ELSE ExperienceLoop(Tail(lines),
                                 seen_entries \cup {entry_key(exp_match[1])},
                                 Append(experiences, exp_match[1]))

ExperienceHeaders ==
    <<"WORK EXPERIENCE", "EXPERIENCE", "PROFESSIONAL EXPERIENCE", "EMPLOYMENT">>
ExperienceMarkers == {"SKILLS", "PROJECTS"}

\* re.search(exp_section_pattern, text, re.IGNORECASE | re.DOTALL)
ExperienceSection(text) ==
    SectionFrom(text, ExperienceHeaders, "EDUCATION", ExperienceMarkers)

extract_work_experience(text) ==
    LET section == ExperienceSection(text)
    IN  IF section = <<>> THEN <<>>
        ELSE ExperienceLoop(SplitOn(section[1], "\n"), {}, <<>>)

(***************************************************************************)
(* Inputs of the parser                                                    *)
(***************************************************************************)
\* a blank line, a header, a name and a line that is not a name
NameLines == {"", "Resume", "John Doe", "J0hn"}

\* texts of up to one line more than the window of extract_name
NameTexts == {Join(l, "\n") : l \in ListsUpTo(NameLines, NameWindow + 1)}

MaxDegreeLines == 3

\* the first line of a text with degrees: a header, a header with a colon,
\* and a line that is no header
FirstLines == {"EDUCATION", "Education:", "Profile"}

\* lines of an education section: two variants of B.Tech, M.Tech and 12th,
\* with and without a year, a score or an institution, and a marker that
\* ends the section
DegreeLines ==
    {"B.Tech CSE 2020", "Bachelor of Technology", "M.Tech 8.5 CGPA",
     "XII State Board", "SKILLS"}

EducationTexts ==
    {Join(<<h>> \o l, "\n") : h \in FirstLines, l \in ListsUpTo(DegreeLines, MaxDegreeLines)}

MaxJobLines == 3

JobFirstLines == {"EXPERIENCE", "Work Experience:", "Profile"}

\* lines of an experience section: one job twice with different durations,
\* another job at the same company, and a line that is no job
JobLines ==
    {"Software Engineer at Acme (2019-2021)",
     "Software Engineer at Acme (2021-Present)",
     "Data Analyst at Acme (2018 - 2019)",
     "Worked on APIs"}

WorkTexts ==
    {Join(<<h>> \o l, "\n") : h \in JobFirstLines, l \in ListsUpTo(JobLines, MaxJobLines)}

ParseTexts == NameTexts \cup EducationTexts \cup WorkTexts

NoParse == [name |-> <<>>, education |-> <<>>, work_experience |-> <<>>]

ParseInit ==
    /\ ptext \in ParseTexts
    /\ parsed = NoParse
    /\ ppc = "start"

ParseIdle ==
    /\ ptext = ""
    /\ parsed = NoParse
    /\ ppc = "idle"

\* name = self.extract_name(text)
ExtractName ==
    /\ ppc = "start"
    /\ parsed' = [parsed EXCEPT !.name = extract_name(ptext)]
    /\ ppc' = "name"
    /\ UNCHANGED ptext

\* education = self.extract_education(text)
ExtractEducation ==
    /\ ppc = "name"
    /\ parsed' = [parsed EXCEPT !.education = extract_education(ptext)]
    /\ ppc' = "education"
    /\ UNCHANGED ptext

\* work_experience = self.extract_work_experience(text)
ExtractWorkExperience ==
    /\ ppc = "education"
    /\ parsed' = [parsed EXCEPT !.work_experience = extract_work_experience(ptext)]
    /\ ppc' = "done"
    /\ UNCHANGED ptext

(***************************************************************************)
(* Specifications                                                          *)
(***************************************************************************)
\* the gap analyzer
Init == NormIdle /\ ListIdle /\ GapInit /\ RecIdle /\ ApiIdle /\ UploadIdle /\ ParseIdle /\ VecIdle
Next == AnalyzeSkillGap /\ UNCHANGED <<normVars, listVars, recVars, apiVars, upVars, parseVars, vecVars>>
Spec == Init /\ [][Next]_vars

\* the skill normalizer
NormSpecInit == NormInit /\ ListIdle /\ GapIdle /\ RecIdle /\ ApiIdle /\ UploadIdle /\ ParseIdle /\ VecIdle
NormSpecNext ==
    \/ NormalizeSkill /\ UNCHANGED <<listVars, gapVars, recVars, apiVars, upVars, parseVars, vecVars>>
    \/ NormalizeAgain /\ UNCHANGED <<listVars, gapVars, recVars, apiVars, upVars, parseVars, vecVars>>
SpecNorm == NormSpecInit /\ [][NormSpecNext]_vars

\* normalize_skills
ListSpecInit == NormIdle /\ ListInit /\ GapIdle /\ RecIdle /\ ApiIdle /\ UploadIdle /\ ParseIdle /\ VecIdle
ListSpecNext == NormalizeSkills /\ UNCHANGED <<normVars, gapVars, recVars, apiVars, upVars, parseVars, vecVars>>
SpecList == ListSpecInit /\ [][ListSpecNext]_vars

\* the recommendation generator
RecSpecInit == NormIdle /\ ListIdle /\ GapIdle /\ RecInit /\ ApiIdle /\ UploadIdle /\ ParseIdle /\ VecIdle
RecSpecNext == GenerateRecommendations /\ UNCHANGED <<normVars, listVars, gapVars, apiVars, upVars, parseVars, vecVars>>
SpecRec == RecSpecInit /\ [][RecSpecNext]_vars

\* the analyzer endpoints and the skill matrix
ApiSpecInit == NormIdle /\ ListIdle /\ GapIdle /\ RecIdle /\ ApiInit /\ UploadIdle /\ ParseIdle /\ VecIdle
ApiSpecNext ==
    \/ MatchResume /\ UNCHANGED <<normVars, listVars, gapVars, recVars, upVars, parseVars, vecVars>>
    \/ BatchMatchResume /\ UNCHANGED <<normVars, listVars, gapVars, recVars, upVars, parseVars, vecVars>>
    \/ CreateSkillMatrix /\ UNCHANGED <<normVars, listVars, gapVars, recVars, upVars, parseVars, vecVars>>
SpecApi == ApiSpecInit /\ [][ApiSpecNext]_vars

\* the upload endpoint
UploadSpecInit == NormIdle /\ ListIdle /\ GapIdle /\ RecIdle /\ ApiIdle /\ UploadInit /\ ParseIdle /\ VecIdle
UploadSpecNext ==
    UploadResume /\ UNCHANGED <<normVars, listVars, gapVars, recVars, apiVars, parseVars, vecVars>>
SpecUpload == UploadSpecInit /\ [][UploadSpecNext]_vars

otherVars == <<normVars, listVars, gapVars, recVars, apiVars, upVars, parseVars>>

\* calls on the shared matcher, one after another
SeqSpecInit ==
    NormIdle /\ ListIdle /\ GapIdle /\ RecIdle /\ ApiIdle /\ UploadIdle /\ ParseIdle /\ SeqInit
SeqSpecNext == AnalyzeNext /\ UNCHANGED otherVars
SpecSeq == SeqSpecInit /\ [][SeqSpecNext]_vars

\* calls on the shared matcher, in parallel
ParSpecInit ==
    NormIdle /\ ListIdle /\ GapIdle /\ RecIdle /\ ApiIdle /\ UploadIdle /\ ParseIdle /\ ParInit
ParSpecNext ==
    \E t \in Threads :
        \/ Begin(t) /\ UNCHANGED otherVars
        \/ CountVocab(t) /\ UNCHANGED otherVars
        \/ TfidfFit(t) /\ UNCHANGED otherVars
        \/ TfidfTransform(t) /\ UNCHANGED otherVars
SpecPar == ParSpecInit /\ [][ParSpecNext]_vars

\* the extractors of parse_resume_full
ParseSpecInit ==
    NormIdle /\ ListIdle /\ GapIdle /\ RecIdle /\ ApiIdle /\ UploadIdle /\ ParseInit /\ VecIdle
ParseSpecNext ==
    \/ ExtractName /\ UNCHANGED <<normVars, listVars, gapVars, recVars, apiVars, upVars, vecVars>>
    \/ ExtractEducation /\ UNCHANGED <<normVars, listVars, gapVars, recVars, apiVars, upVars, vecVars>>
    \/ ExtractWorkExperience /\ UNCHANGED <<normVars, listVars, gapVars, recVars, apiVars, upVars, vecVars>>
SpecParse == ParseSpecInit /\ [][ParseSpecNext]_vars

(***************************************************************************)
(* Properties                                                              *)
(***************************************************************************)
\* the set of non-empty normalized tokens of a raw skill list
NormTokens(lst) == {normalize_skill(lst[i]) : i \in 1..Len(lst)} \ {""}

Abs(x) == IF x < 0 THEN -x ELSE x

\* C1: for resume list A and required list B with NA, NB their sets of
\* non-empty normalized tokens, matching_required is exactly NA \cap NB,
\* missing_required is exactly NB \ NA, the two are disjoint and their
\* union is NB.
C1_SetAlgebra ==
    pc = "analyzed" =>
        LET NA == NormTokens(resume_skills)
            NB == NormTokens(required_skills)
            mr == SeqToSet(analysis.matching_required)
            xr == SeqToSet(analysis.missing_required)
        IN  /\ mr = NA \cap NB
            /\ xr = NB \ NA
            /\ mr \cap xr = {}
            /\ mr \cup xr = NB
            /\ Len(analysis.matching_required) = Cardinality(mr)
            /\ Len(analysis.missing_required) = Cardinality(xr)

\* an abbreviation matched against its long form, one required skill
\* missing, and a resume entry that normalizes to the empty string
C1_Witness ==
    /\ pc = "analyzed"
    /\ resume_skills = <<"ML", " .">>
    /\ required_skills = <<"Machine Learning", "C">>
    /\ analysis.matching_required = <<"machine learning">>
    /\ analysis.missing_required = <<"c">>

\* C2: for every combination of resume, required and preferred lists the
\* job_fit_score analyze_skill_gap returns lies between 0 and 100.
C2_FitScoreBounds ==
    pc = "analyzed" => analysis.job_fit_score \in 0..(100 * 100)

\* both ends of the range are returned
C2_Witness ==
    /\ pc = "analyzed"
    /\ analysis.job_fit_score = 100 * 100
    /\ preferred_skills # <<>>

\* C3: job_fit_score is the sum, rounded to 2 decimals, of
\* |matching_required| / |required| * 60 (0 when required normalizes to
\* empty), |matching_preferred| / |preferred| * 20 (0 when preferred
\* normalizes to empty) and similarity_score * 20; nothing else, such as
\* the additional skills, enters it.
C3_FitScoreFormula ==
    pc = "analyzed" =>
        LET NA == NormTokens(resume_skills)
            NB == NormTokens(required_skills)
            NP == NormTokens(preferred_skills)
            n  == IF NB = {} THEN 1 ELSE Cardinality(NB)
            q  == IF NP = {} THEN 1 ELSE Cardinality(NP)
            a  == Cardinality(NA \cap NB)
            b  == Cardinality(NA \cap NP)
            \* the exact sum in hundredths, times n * q
            exact == 6000 * a * q + 2000 * b * n + 2 * analysis.similarity_score * n * q
        IN  2 * Abs(analysis.job_fit_score * n * q - exact) <= n * q

\* every component strictly between its extremes, and an additional skill
C3_Witness ==
    /\ pc = "analyzed"
    /\ Len(analysis.matching_required) = 1
    /\ Len(analysis.missing_required) = 1
    /\ Len(analysis.matching_preferred) = 1
    /\ Len(analysis.additional_skills) = 1
    /\ analysis.similarity_score \in 1..999

\* C4 as claimed: for every list L, analyze_skill_gap(L, L, []) has no
\* missing required skill, required_match_percentage 100.0 and
\* job_fit_score >= 60.
C4_PerfectMatchAnyList ==
    (pc = "analyzed" /\ resume_skills = required_skills /\ preferred_skills = <<>>) =>
        /\ analysis.missing_required = <<>>
        /\ analysis.required_match_percentage = 100 * 100
        /\ analysis.job_fit_score >= 60 * 100

\* C4 as amended: the same for every list L with at least one skill whose
\* normalized form is not empty.
C4_PerfectMatchNonEmpty ==
    (/\ pc = "analyzed"
     /\ resume_skills = required_skills
     /\ preferred_skills = <<>>
     /\ NormTokens(required_skills) # {}) =>
        /\ analysis.missing_required = <<>>
        /\ analysis.required_match_percentage = 100 * 100
        /\ analysis.job_fit_score >= 60 * 100

\* identical lists of two distinct skills, the fit score at its least
C4_Witness ==
    /\ pc = "analyzed"
    /\ resume_skills = required_skills
    /\ preferred_skills = <<>>
    /\ Len(analysis.matching_required) = 2
    /\ analysis.required_match_percentage = 100 * 100

\* C5: when the resume list and the required list are identical (and hold
\* at least one skill with a non-empty normalized form) and preferred is
\* empty, similarity_score is 1.0 and job_fit_score is exactly 80.
C5_IdenticalListsScore80 ==
    (/\ pc = "analyzed"
     /\ resume_skills = required_skills
     /\ preferred_skills = <<>>
     /\ NormTokens(required_skills) # {}) =>
        /\ analysis.similarity_score = 1000
        /\ analysis.job_fit_score = 80 * 100

\* C6: when the normalized resume and required sets are disjoint and
\* preferred is empty, matching_required is empty, missing_required holds
\* every normalized required skill, required_match_percentage is 0 and
\* job_fit_score is the similarity component alone, so at most 20.
C6_NoOverlap ==
    (/\ pc = "analyzed"
     /\ NormTokens(resume_skills) \cap NormTokens(required_skills) = {}
     /\ preferred_skills = <<>>) =>
        /\ analysis.matching_required = <<>>
        /\ SeqToSet(analysis.missing_required) = NormTokens(required_skills)
        /\ analysis.required_match_percentage = 0
        /\ analysis.job_fit_score = 2 * analysis.similarity_score
        /\ analysis.job_fit_score <= 20 * 100

\* disjoint sets that share a word, so the similarity component is not 0
C6_Witness ==
    /\ pc = "analyzed"
    /\ preferred_skills = <<>>
    /\ analysis.matching_required = <<>>
    /\ Len(analysis.missing_required) = 2
    /\ analysis.similarity_score > 0
    /\ analysis.job_fit_score > 0

\* C7: normalize_skill is idempotent: for every string s,
\* normalize_skill(normalize_skill(s)) = normalize_skill(s).
C7_NormalizeIdempotent ==
    npc = "renormalized" => twice = once

\* C8: for every key k of the synonym table and every upper/lower-case
\* variant of k, normalize_skill of the variant equals normalize_skill of
\* the canonical long form of k.
C8_SynonymResolution ==
    (npc \in {"normalized", "renormalized"} /\ Lower(skill) \in DOMAIN skill_synonyms) =>
        once = normalize_skill(skill_synonyms[Lower(skill)])

\* an upper-case abbreviation resolved to the long form
C8_Witness ==
    /\ npc = "normalized"
    /\ skill = "JS"
    /\ once = "javascript"

\* C9: normalize_skills returns a list with no empty string and no
\* duplicate, holding exactly the non-empty normalized forms of the
\* inputs, ordered by the first position of each form in the input.
C9_NormalizeSkills ==
    lpc = "done" =>
        LET out   == normalized_skills
            forms == [i \in 1..Len(raw_skills) |-> normalize_skill(raw_skills[i])]
            FirstPos(x) ==
                CHOOSE k \in 1..Len(forms) :
                    forms[k] = x /\ \A m \in 1..(k - 1) : forms[m] # x
        IN  /\ \A i \in 1..Len(out) : out[i] # ""
            /\ \A i, j \in 1..Len(out) : out[i] = out[j] => i = j
            /\ SeqToSet(out) = NormTokens(raw_skills)
            /\ \A i, j \in 1..Len(out) : i < j => FirstPos(out[i]) < FirstPos(out[j])

\* an empty form dropped, a duplicate form dropped, first-seen order kept
C9_Witness ==
    /\ lpc = "done"
    /\ raw_skills = <<"deep learning", " .", "ML">>
    /\ normalized_skills = <<"deep learning", "machine learning">>

\* the text of a line up to and including its first "]"
RECURSIVE TagOf(_)
TagOf(line) ==
    IF line = "" THEN ""
    ELSE IF Head(line) = "]" THEN "]"
    ELSE Head(line) \o TagOf(Tail(line))

HeadlineTags == {"[EXCELLENT]", "[GOOD]", "[MODERATE]", "[LOW]"}

\* C10: generate_recommendations returns a non-empty list whose first
\* entry is the headline of the score band (>= 80 EXCELLENT, [60, 80) GOOD,
\* [40, 60) MODERATE, < 40 LOW), and no other entry is a headline.
C10_Headline ==
    rpc = "done" =>
        /\ Len(recommendations) >= 1
        /\ TagOf(recommendations[1]) =
               (IF job_fit_score >= 8000 THEN "[EXCELLENT]"
                ELSE IF job_fit_score >= 6000 THEN "[GOOD]"
                ELSE IF job_fit_score >= 4000 THEN "[MODERATE]"
                ELSE "[LOW]")
        /\ \A i \in 2..Len(recommendations) : TagOf(recommendations[i]) \notin HeadlineTags

\* a score on a band edge, with both optional lines present
C10_Witness ==
    /\ rpc = "done"
    /\ job_fit_score = 8000
    /\ recommendations[1] = "[EXCELLENT] You meet most requirements."
    /\ Len(recommendations) = 5

\* C11: the results list batch_match returns holds one entry per job and is
\* in non-increasing order of fit_score, and the rows create_skill_matrix
\* returns are in non-increasing order of 'Fit Score'.
C11_SortedByFitScore ==
    /\ (apc = "batched" /\ response.status_code = 200) =>
          /\ Len(results) = Len(job_requirements)
          /\ {results[i].job_title : i \in 1..Len(results)} =
                 {job_requirements[i].job_title : i \in 1..Len(job_requirements)}
          /\ \A i \in 1..(Len(results) - 1) :
                 results[i].fit_score >= results[i + 1].fit_score
    /\ (apc = "matrix" /\ ~matrix.raised) =>
          /\ Len(matrix.rows) = Len(job_requirements)
          /\ \A i \in 1..(Len(matrix.rows) - 1) :
                 matrix.rows[i].Fit_Score >= matrix.rows[i + 1].Fit_Score

\* three jobs with three different scores, given in increasing order of score
C11_Witness ==
    /\ apc = "batched"
    /\ Len(results) = 3
    /\ results[1].fit_score > results[2].fit_score
    /\ results[2].fit_score > results[3].fit_score
    /\ PositionOf(results[1].job_title) = 3
    /\ PositionOf(results[3].job_title) = 1

\* s holds sub as a substring
Contains(s, sub) ==
    \E i \in 1..(Len(s) - Len(sub) + 1) : SubSeq(s, i, i + Len(sub) - 1) = sub

SupportedExtension == file_extension(filename) \in SeqToSet(allowed_extensions)

\* C12: an upload with a supported extension and zero bytes of content is
\* answered with a client error (a 4xx status code).
C12_EmptyFileClientError ==
    (upc = "done" /\ SupportedExtension /\ file_content.size = 0) =>
        upload_response.status_code \in 400..499

\* C13: an upload whose extension is outside pdf, docx and doc is answered
\* with a client error (a 4xx status code) whose detail names the extension,
\* and neither a decoder nor an extractor has run.
C13_UnsupportedTypeClientError ==
    (upc = "done" /\ ~SupportedExtension) =>
        /\ upload_response.status_code \in 400..499
        /\ Contains(upload_response.detail, file_extension(filename))
        /\ decoder_calls = <<>>
        /\ extractor_calls = <<>>

\* the request names no resume skill, or a job that names no required skill
EmptyArgument ==
    \/ req_skills = <<>>
    \/ \E i \in 1..Len(job_requirements) : job_requirements[i].required_skills = <<>>

\* C14: match_resume and batch_match answer a request with an empty resume
\* skill list, or with a job whose required-skill list is empty, with
\* status 400 without calling analyze_skill_gap, and never call
\* analyze_skill_gap with an empty required_skills list.
C14_EmptyListsRejected ==
    apc \in {"matched", "batched"} =>
        /\ EmptyArgument => (response.status_code = 400 /\ analyzer_calls = <<>>)
        /\ \A i \in 1..Len(analyzer_calls) : analyzer_calls[i] # <<>>

\* C15: on one SkillMatcher, after any sequence of earlier calls, a call of
\* analyze_skill_gap returns what the same call returns on a new
\* SkillMatcher: the same sets, similarity_score and job_fit_score.
C15_PureOnSharedInstance ==
    history # <<>> =>
        LET a == history[Len(history)] IN
        /\ calls["t1"].args = a
        /\ calls["t1"].result \in
               AnalyzeOn(FreshVectorizer(vectorizer.replaces),
                         a.resume, a.required, a.preferred).results
        /\ calls["t1"].result \in analyze_skill_gap(a.resume, a.required, a.preferred)

\* a call with a similarity strictly between 0 and 1 that follows a call
\* which fitted the vectorizer on another vocabulary of the same size
C15_Witness ==
    /\ Len(history) = 2
    /\ history[1] # history[2]
    /\ Len(count_vocab(Documents(history[1].resume, history[1].required)).vocabulary_) =
           Len(vectorizer.vocabulary_)
    /\ count_vocab(Documents(history[1].resume, history[1].required)).vocabulary_ #
           vectorizer.vocabulary_
    /\ calls["t1"].result.similarity_score \in 1..999

\* C16: when two calls of analyze_skill_gap on the shared SkillMatcher are
\* interleaved, each returns what it returns when run alone.
C16_IndependentInParallel ==
    \A t \in Threads :
        calls[t].pc = "done" =>
            calls[t].result \in analyze_skill_gap(calls[t].args.resume,
                                    calls[t].args.required, calls[t].args.preferred)

\* the positions of the entries of recommendations that carry a tag
TaggedAt(tag) == {i \in 1..Len(recommendations) : TagOf(recommendations[i]) = tag}

\* the text of a line behind its first " - "
RECURSIVE AfterDash(_)
AfterDash(line) ==
    IF Len(line) < 3 THEN ""
    ELSE IF SubSeq(line, 1, 3) = " - " THEN SubSeq(line, 4, Len(line))
    ELSE AfterDash(Tail(line))

\* the parts of a text between its ", " separators
RECURSIVE SplitList(_, _)
SplitList(text, cur) ==
    IF text = "" THEN <<cur>>
    ELSE IF Len(text) >= 2 /\ SubSeq(text, 1, 2) = ", "
         THEN <<cur>> \o SplitList(SubSeq(text, 3, Len(text)), "")
         ELSE SplitList(Tail(text), cur \o Head(text))

\* the skills a PRIORITY or BONUS line lists, in the order it lists them
Listed(line) == SplitList(AfterDash(line), "")

\* C17: a PRIORITY line is present exactly when missing_required is not
\* empty and lists its first min(5, n) skills in the given order; a BONUS
\* line is present exactly when missing_preferred is not empty and
\* job_fit_score < 90 and lists its first min(3, n) skills; both come behind
\* the headline, PRIORITY before BONUS.
C17_PriorityAndBonus ==
    rpc = "done" =>
        /\ Cardinality(TaggedAt("[PRIORITY]")) = (IF missing_required # <<>> THEN 1 ELSE 0)
        /\ Cardinality(TaggedAt("[BONUS]")) =
               (IF missing_preferred # <<>> /\ job_fit_score < 9000 THEN 1 ELSE 0)
        /\ \A i \in TaggedAt("[PRIORITY]") :
               /\ i > 1
               /\ Listed(recommendations[i]) =
                      SubSeq(missing_required, 1,
                             IF Len(missing_required) < 5 THEN Len(missing_required) ELSE 5)
               /\ \A j \in TaggedAt("[BONUS]") : i < j
        /\ \A j \in TaggedAt("[BONUS]") :
               /\ j > 1
               /\ Listed(recommendations[j]) =
                      SubSeq(missing_preferred, 1,
                             IF Len(missing_preferred) < 3 THEN Len(missing_preferred) ELSE 3)

\* six required and four preferred skills missing, score just below 90:
\* both lines are present and both are cut
C17_Witness ==
    /\ rpc = "done"
    /\ Len(missing_required) = 6
    /\ Len(missing_preferred) = 4
    /\ job_fit_score = 8999
    /\ TaggedAt("[PRIORITY]") = {2}
    /\ TaggedAt("[BONUS]") = {3}
    /\ Len(Listed(recommendations[2])) = 5
    /\ Len(Listed(recommendations[3])) = 3

\* the words that tell the three pairs of ADVICE lines apart
AdviceWords(score) ==
    IF score < 5000 THEN <<"courses", "junior">>
    ELSE IF score < 7000 THEN <<"projects", "Network">>
    ELSE <<"Highlight", "interviews">>

\* C18: the list ends with exactly two ADVICE lines, those of the score band
\* (< 50, [50, 70), >= 70), and has 3 to 5 entries in the order headline,
\* PRIORITY if any, BONUS if any, the two ADVICE lines.
C18_AdviceBlock ==
    rpc = "done" =>
        LET n == Len(recommendations) IN
        /\ n \in 3..5
        /\ TaggedAt("[ADVICE]") = {n - 1, n}
        /\ Contains(recommendations[n - 1], AdviceWords(job_fit_score)[1])
        /\ Contains(recommendations[n], AdviceWords(job_fit_score)[2])
        /\ TagOf(recommendations[1]) \in HeadlineTags
        /\ \A i \in 2..(n - 2) : TagOf(recommendations[i]) \in {"[PRIORITY]", "[BONUS]"}
        /\ \A i, j \in 2..(n - 2) :
               (i < j) => (TagOf(recommendations[i]) = "[PRIORITY]"
                           /\ TagOf(recommendations[j]) = "[BONUS]")

\* a score on the edge of the middle band with both optional lines present
C18_Witness ==
    /\ rpc = "done"
    /\ job_fit_score = 5000
    /\ Len(recommendations) = 5
    /\ Contains(recommendations[4], "projects")
    /\ Contains(recommendations[5], "Network")

SkillMatrixStable ==
    (apc = "matrix" /\ ~matrix.raised) =>
        \A p, q \in 1..Len(matrix.rows) :
            (p < q /\ matrix.rows[p].Fit_Score = matrix.rows[q].Fit_Score) =>
                PositionOf(matrix.rows[p].Job_Title) < PositionOf(matrix.rows[q].Job_Title)

DecoderFails ==
    /\ file_content.size > 0
    /\ \/ DecoderFor(filename) = "parse_pdf" /\ ~file_content.pdf
       \/ DecoderFor(filename) = "parse_docx" /\ ~file_content.docx

\* C20: when parse_pdf or parse_docx raises on a file of a supported type,
\* upload_resume answers with status 400 and the decoder's message as
\* detail, and no extractor has run.
C20_DecodeFailure ==
    (upc = "done" /\ DecoderFails) =>
        /\ decoder_calls = <<DecoderFor(filename)>>
        /\ upload_response.status_code = 400
        /\ upload_response.detail =
               (IF DecoderFor(filename) = "parse_pdf"
                THEN "Error parsing PDF: " \o PdfReadError
                ELSE "Error parsing DOCX: " \o BadZipFile)
        /\ upload_response.text_preview = ""
        /\ extractor_calls = <<>>

\* a well-formed PDF uploaded under a .docx name
C20_Witness ==
    /\ upc = "done"
    /\ filename = "cv.docx"
    /\ file_content = PdfBytes
    /\ decoder_calls = <<"parse_docx">>
    /\ upload_response.status_code = 400
    /\ extractor_calls = <<>>

\* C21: whenever the required list normalizes to empty, analyze_skill_gap
\* returns (it has a result) with matching_required and missing_required
\* empty, similarity_score 0.0, required_match_percentage 0 and a
\* job_fit_score of at most 20.
C21_EmptyRequiredDegrades ==
    /\ (pc = "start" /\ NormTokens(required_skills) = {}) =>
          analyze_skill_gap(resume_skills, required_skills, preferred_skills) # {}
    /\ (pc = "analyzed" /\ NormTokens(required_skills) = {}) =>
          /\ analysis.matching_required = <<>>
          /\ analysis.missing_required = <<>>
          /\ analysis.similarity_score = 0
          /\ analysis.required_match_percentage = 0
          /\ analysis.job_fit_score <= 20 * 100

\* a required list that is not empty but normalizes to empty, and a matched
\* preferred skill that brings the score to 20
C21_Witness ==
    /\ pc = "analyzed"
    /\ required_skills # <<>>
    /\ NormTokens(required_skills) = {}
    /\ resume_skills # <<>>
    /\ analysis.job_fit_score = 20 * 100

\* the vectorizer finds no term in the two texts of a call
VectorizationFails(resume, job) ==
    LET resume_text == skills_to_text(resume)
        job_text    == skills_to_text(job)
    IN  /\ resume_text # ""
        /\ job_text # ""
        /\ TfidfCosine(resume_text, job_text).raised

\* C22: calculate_similarity always has a value, between 0.0 and 1.0; the
\* value is 0.0 when the text of either list is empty and 0.0 when the
\* vectorization fails, and in that case analyze_skill_gap still returns
\* its sets and its fit score, computed with similarity 0.0.
C22_SimilarityNeverFails ==
    pc = "analyzed" =>
        LET resume_text == skills_to_text(resume_skills)
            job_text    == skills_to_text(required_skills)
            fails       == /\ resume_text # ""
                           /\ job_text # ""
                           /\ TfidfCosine(resume_text, job_text).raised
        IN  /\ analysis.similarity_score \in 0..1000
            /\ (resume_text = "" \/ job_text = "") => analysis.similarity_score = 0
            /\ fails =>
                  /\ analysis.similarity_score = 0
                  /\ analysis \in GapAnalysis(resume_skills, required_skills,
                                               preferred_skills, 0)

C22_Witness ==
    /\ pc = "analyzed"
    /\ VectorizationFails(resume_skills, required_skills)
    /\ analysis.similarity_score = 0
    /\ analysis.matching_required # <<>>
    /\ analysis.job_fit_score = 60 * 100

\* a list without an empty string and without a repeated entry
CleanList(lst) ==
    /\ \A i \in 1..Len(lst) : lst[i] # ""
    /\ \A i, j \in 1..Len(lst) : lst[i] = lst[j] => i = j

\* C28: additional_skills is exactly the normalized resume set minus the
\* normalized required and preferred sets; matching_required,
\* matching_preferred and additional_skills together make up the normalized
\* resume set, additional_skills shares no skill with either matching list,
\* and no list of the result holds an empty string or a duplicate.
C28_AdditionalSkills ==
    pc = "analyzed" =>
        LET NA  == NormTokens(resume_skills)
            NB  == NormTokens(required_skills)
            NP  == NormTokens(preferred_skills)
            add == SeqToSet(analysis.additional_skills)
            mr  == SeqToSet(analysis.matching_required)
            mp  == SeqToSet(analysis.matching_preferred)
        IN  /\ add = (NA \ NB) \ NP
            /\ mr \cup mp \cup add = NA
            /\ add \cap mr = {}
            /\ add \cap mp = {}
            /\ CleanList(analysis.matching_required)
            /\ CleanList(analysis.matching_preferred)
            /\ CleanList(analysis.missing_required)
            /\ CleanList(analysis.missing_preferred)
            /\ CleanList(analysis.additional_skills)

C28_Witness ==
    /\ pc = "analyzed"
    /\ analysis.additional_skills # <<>>
    /\ analysis.matching_preferred # <<>>
    /\ analysis.missing_required # <<>>
    /\ SeqToSet(analysis.matching_preferred) \cap NormTokens(required_skills) = {}

\* the normalized set of every resume of the input family
ResumeSets == [r \in DistinctListsUpTo(SkillPool, MaxResume) |-> NormTokens(r)]

\* the resumes whose normalized set includes that of the analyzed resume
LargerResumes ==
    LET given == NormTokens(resume_skills)
    IN  {r \in DOMAIN ResumeSets : given \subseteq ResumeSets[r]}

\* the required side of the result for a resume with normalized set
\* resume_set, a normalized required set required_set and n normalized
\* required skills: the matched and the missing required skills and
\* required_match_percentage, which do not depend on the order the lists
\* come in
RequiredSide(resume_set, required_set, n) ==
    LET matching == Matching(resume_set, required_set)
    IN  [matching   |-> matching,
         missing    |-> Missing(required_set, resume_set),
         percentage |-> IF n > 0 THEN RoundDiv(Cardinality(matching) * 100 * 100, n)
                        ELSE 0]

\* C30: for fixed required and preferred lists, a resume whose normalized
\* set includes that of the analyzed resume misses no more required skills,
\* matches no fewer, and has a required_match_percentage at least as high;
\* required_match_percentage is 100 exactly when the normalized required set
\* is non-empty and missing_required is empty.
C30_MonotoneInResume ==
    pc = "analyzed" =>
        LET required_set == NormTokens(required_skills)
            n            == Len(normalize_skills(required_skills))
            own          == RequiredSide(NormTokens(resume_skills), required_set, n)
            matching     == SeqToSet(analysis.matching_required)
            missing      == SeqToSet(analysis.missing_required)
        IN  /\ matching = own.matching
            /\ missing = own.missing
            /\ analysis.required_match_percentage = own.percentage
            /\ \A r \in LargerResumes :
                  LET larger == RequiredSide(ResumeSets[r], required_set, n)
                  IN  /\ larger.missing \subseteq missing
                      /\ matching \subseteq larger.matching
                      /\ larger.percentage >= analysis.required_match_percentage
            /\ analysis.required_match_percentage = 100 * 100
                  <=> (required_set # {} /\ analysis.missing_required = <<>>)

C30_Witness ==
    /\ pc = "analyzed"
    /\ analysis.required_match_percentage = 50 * 100
    /\ \E r \in LargerResumes :
          LET larger == RequiredSide(ResumeSets[r], NormTokens(required_skills),
                                     Len(normalize_skills(required_skills)))
          IN  /\ ResumeSets[r] # NormTokens(resume_skills)
              /\ larger.percentage = 100 * 100
              /\ larger.missing = {}

\* how often x occurs in lst
Occurrences(lst, x) == Cardinality({i \in 1..Len(lst) : lst[i] = x})

\* C29: total_skills_matched is the length of matching_required plus that of
\* matching_preferred, and matching_skills of a match_resume response is
\* matching_required followed by matching_preferred; number and list are
\* those of the distinct matched skills exactly when no resume skill is both
\* required and preferred, and otherwise such a skill is counted and listed
\* twice.  missing_skills holds the missing required skills only.
C29_MatchedCountsTwice ==
    (apc = "matched" /\ response.status_code = 200) =>
        LET job    == job_requirements[1]
            NA     == NormTokens(req_skills)
            NB     == NormTokens(job.required_skills)
            NP     == NormTokens(job.preferred_skills)
            both   == (NA \cap NB) \cap NP
            listed == match_result.matching_skills
            nreq   == Cardinality(NA \cap NB)
        IN  /\ Len(listed) = nreq + Cardinality(NA \cap NP)
            /\ SeqToSet(SubSeq(listed, 1, nreq)) = NA \cap NB
            /\ SeqToSet(SubSeq(listed, nreq + 1, Len(listed))) = NA \cap NP
            /\ \A r \in analyze_skill_gap(req_skills, job.required_skills,
                                          job.preferred_skills) :
                  /\ r.total_skills_matched
                        = Len(r.matching_required) + Len(r.matching_preferred)
                  /\ r.total_skills_matched = Len(listed)
            /\ Len(listed) = Cardinality(SeqToSet(listed)) <=> both = {}
            /\ \A x \in SeqToSet(listed) :
                  Occurrences(listed, x) = IF x \in both THEN 2 ELSE 1
            /\ SeqToSet(match_result.missing_skills) = NB \ NA
            /\ Len(match_result.missing_skills) = Cardinality(NB \ NA)

C29_Witness ==
    /\ apc = "matched"
    /\ response.status_code = 200
    /\ Len(match_result.matching_skills) = 2
    /\ match_result.matching_skills[1] = match_result.matching_skills[2]

\* requests that differ from the handled one in optional fields only: the
\* resume with and without its optional fields, the jobs all with and all
\* without theirs
ResumeVariants ==
    {[skills           |-> req_skills,
      experience_years |-> o.experience_years,
      education        |-> o.education,
      job_titles       |-> o.job_titles] : o \in ResumeOptions}

JobVariants ==
    {[i \in 1..Len(job_requirements) |->
         [job_title          |-> job_requirements[i].job_title,
          required_skills    |-> job_requirements[i].required_skills,
          preferred_skills   |-> job_requirements[i].preferred_skills,
          min_experience     |-> o.min_experience,
          education_required |-> o.education_required]] :
        o \in JobOptions}

\* C23: min_experience and education_required of a job and experience_years,
\* education and job_titles of the resume do not influence the analysis: a
\* match_resume or batch_match request that differs from the handled one in
\* these fields only can get the response that was given, and the same
\* responses (fit score, similarity, skill sets and recommendations) as the
\* handled request.
C23_OptionalFieldsIgnored ==
    /\ apc = "matched" =>
          LET given == match_resume(RequestResume, job_requirements[1])
          IN  /\ [response |-> response, match_result |-> match_result,
                  calls |-> analyzer_calls] \in given
              /\ \A resume \in ResumeVariants, jobs \in JobVariants :
                    match_resume(resume, jobs[1]) = given
    /\ apc = "batched" =>
          LET given == batch_match_resume(RequestResume, job_requirements)
          IN  /\ [response |-> response, results |-> results,
                  calls |-> analyzer_calls] \in given
              /\ \A resume \in ResumeVariants, jobs \in JobVariants :
                    batch_match_resume(resume, jobs) = given

\* a resume with 2 years of experience matched against a job that asks for
\* 5 and for another degree, with a positive fit score
C23_Witness ==
    /\ apc = "matched"
    /\ response.status_code = 200
    /\ req_optional.experience_years = <<2>>
    /\ job_requirements[1].min_experience = <<5>>
    /\ req_optional.education # job_requirements[1].education_required
    /\ match_result.job_fit_score > 0
    /\ match_result.matching_skills # <<>>

\* the lines of a text that are not blank
NonEmptyLines(text) ==
    SelectSeq(SplitOn(text, "\n"), LAMBDA l : Strip(l) # "")

\* the first of the lines that is no header and looks like a name
FirstNameLine(lines) ==
    LET good == {i \in 1..Len(lines) :
                    /\ Upper(Strip(lines[i])) \notin NameHeaders
                    /\ LooksLikeName(Strip(lines[i]))}
    IN  IF good = {} THEN <<>>
        ELSE <<Strip(lines[CHOOSE i \in good : \A j \in good : i <= j])>>

\* C27: extract_name examines the first 5 non-empty lines of the text (blank
\* lines do not use up the window), skips the header lines, and returns the
\* first examined line of 1 to 4 tokens that are alphabetic once periods are
\* removed; it returns none exactly when those 5 lines hold no such line.
C27_NameInFiveNonEmptyLines ==
    ppc # "start" /\ ppc # "idle" =>
        parsed.name = FirstNameLine(Take(NonEmptyLines(ptext), NameWindow))

\* the education section of the parsed text ("" when there is none) and the
\* matches of the degree patterns in it, in the order the loops visit them
SectionOfText == IF EducationSection(ptext) = <<>> THEN "" ELSE EducationSection(ptext)[1]
MatchesOfText == DegreeMatches(SectionOfText, 1)
LabelOf(match) == degree_name[match.pattern]

\* the members of a list that are the first with their key
FirstOfKey(keys) ==
    {i \in 1..Len(keys) : \A j \in 1..(i - 1) : keys[j] # keys[i]}

\* the k-th smallest member of a set of numbers
Nth(S, k) == CHOOSE i \in S : Cardinality({j \in S : j <= i}) = k

\* C24: extract_education returns one entry for every canonical degree label
\* that has a match and no more, also when several patterns of a label match
\* or a pattern matches several times; the entry of a label is that of its
\* first match, in the order in which the patterns and their matches are
\* visited, and later matches of a seen label add nothing.
C24_OneEntryPerDegree ==
    ppc = "done" =>
        LET section == SectionOfText
            matches == DegreeMatches(section, 1)
            labels  == [i \in 1..Len(matches) |-> LabelOf(matches[i])]
            firsts  == FirstOfKey(labels)
        IN  /\ Len(parsed.education) = Cardinality(firsts)
            /\ Len(parsed.education) = Cardinality(SeqToSet(labels))
            /\ \A k \in 1..Len(parsed.education) :
                  parsed.education[k]
                      = EducationEntry(section, matches[Nth(firsts, k)])

\* two patterns of one label match, one of them twice, and one entry is kept
C24_Witness ==
    /\ ppc = "done"
    /\ Len(parsed.education) = 1
    /\ LET matches == MatchesOfText
       IN  /\ \E i, j \in 1..Len(matches) :
                 /\ matches[i].pattern # matches[j].pattern
                 /\ LabelOf(matches[i]) = LabelOf(matches[j])
           /\ \E i, j \in 1..Len(matches) :
                 i # j /\ matches[i].pattern = matches[j].pattern

DegreeLabels == {"B.Tech", "M.Tech", "B.E.", "BCA", "MCA", "MBA", "12th", "10th"}

\* C25: the degree field of every entry extract_education returns is one of
\* the labels B.Tech, M.Tech, B.E., BCA, MCA, MBA, 12th, 10th, whichever
\* textual variant matched.
C25_DegreeIsLabel ==
    ppc = "done" =>
        \A k \in 1..Len(parsed.education) : parsed.education[k].degree \in DegreeLabels

\* the job lines of the experience section of the parsed text, in order
JobsOfText ==
    LET section == ExperienceSection(ptext)
        lines   == IF section = <<>> THEN <<>> ELSE SplitOn(section[1], "\n")
        found   == [i \in 1..Len(lines) |->
                       IF Strip(lines[i]) = "" THEN <<>>
                       ELSE SearchExperience(Strip(lines[i]))]
        hits    == SelectSeq(found, LAMBDA m : m # <<>>)
    IN  [i \in 1..Len(hits) |-> hits[i][1]]

PairOf(entry) == <<entry.title, entry.company>>

\* C26: the list extract_work_experience returns has no two entries with the
\* same (title, company) pair; for a pair on several matching lines the
\* entry, duration included, is that of the first such line, and the entries
\* stand in the order of these first lines.
C26_UniqueTitleCompany ==
    ppc = "done" =>
        LET jobs   == JobsOfText
            pairs  == [i \in 1..Len(jobs) |-> PairOf(jobs[i])]
            firsts == FirstOfKey(pairs)
        IN  /\ \A i, j \in 1..Len(parsed.work_experience) :
                  PairOf(parsed.work_experience[i]) = PairOf(parsed.work_experience[j])
                      => i = j
            /\ Len(parsed.work_experience) = Cardinality(firsts)
            /\ \A n \in 1..Len(parsed.work_experience) :
                  parsed.work_experience[n] = jobs[Nth(firsts, n)]

\* a job, another job, and the first job again with another duration
C26_Witness ==
    /\ ppc = "done"
    /\ Len(parsed.work_experience) = 2
    /\ LET jobs == JobsOfText
       IN  /\ Len(jobs) = 3
           /\ PairOf(jobs[1]) = PairOf(jobs[3])
           /\ jobs[1].duration # jobs[3].duration
           /\ parsed.work_experience[1].duration = jobs[1].duration

==============================================================================
